---- MODULE Spec2Model ----
(***************************************************************************)
(* A model of the LLMProxy client of src/py/llmproxy/main.py: one client   *)
(* instance, its configuration, the retrying session built at             *)
(* construction, and the five public operations.  An operation is invoked  *)
(* (its request is built and handed to session.post), the transport makes  *)
(* HTTP attempts that the remote service answers one by one, and the last  *)
(* response, or the transport's exception, is folded into the result.      *)
(***************************************************************************)
EXTENDS Integers, Sequences, FiniteSets, TLC

VARIABLES
    config,     \* self.config: the ClientConfig built at construction
    session,    \* self.session: the requests.Session object, by its identity and its Retry
    pc,         \* "start": no client yet; "failed": construction raised; "idle": no call yet;
                \* "post": inside session.post; "done": the call returned or raised
    call,       \* the operation in progress or just finished: its name, its arguments, the state of its path
    sent,       \* the request handed to session.post by the current call
    retries,    \* the urllib3 Retry object of the request in flight
    attempts,   \* HTTP attempts made on the wire for the current call
    answered,   \* how each attempt of the current call ended: its status code, or 0 for a transport failure
    posts,      \* invocations of session.post since construction (what a transport spy counts)
    postsBefore,\* the value of posts when the current call was invoked
    resp,       \* the response session.post returned to the current call
    result,     \* what the current call gave its caller: a returned value or a raised exception
    opened,     \* file handles the current call has opened and has not closed
    cur,        \* the thread that is running; the variables from pc to opened are its own
    parked,     \* for each thread that is not running, its own pc ... opened as it left them
    bot,        \* the GradingBot built on the client: its fields and the frame of its operation
    gui,        \* the upload page of the GUI: st.session_state.uploaded_docs and what it shows
    ast_Num     \* whether the ast module of the running Python has the class Num

vars == <<cur, parked, config, session, pc, call, sent, retries, attempts, answered, posts, postsBefore,
          resp, result, opened, bot, gui, ast_Num>>

-----------------------------------------------------------------------------
(* Bounds of the model.                                                    *)

\* session.post is invoked at most this many times in one behaviour.
MaxPosts == 2

\* Threads that call the one client concurrently.
MaxThreads == 2

\* HTTP attempts one call is followed for.
MaxAttempts == 6
MaxBotPosts == 3
MaxGuiPosts == 2

-----------------------------------------------------------------------------
(* Python values.  Scalars share one record shape so that any two can be   *)
(* compared; a dict is a function from its keys to scalars.                *)

PyNone == [t |-> "None", s |-> "", n |-> 0]
PyStr(x) == [t |-> "str", s |-> x, n |-> 0]
PyInt(x) == [t |-> "int", s |-> "", n |-> x]
PyFloat(x) == [t |-> "float", s |-> x, n |-> 0]
PyBool(b) == [t |-> "bool", s |-> "", n |-> IF b THEN 1 ELSE 0]
PyList == [t |-> "list", s |-> "", n |-> 0]
PyDict(f) == [t |-> "dict", d |-> f]
\* An open binary file handle on path x.
PyFile(x) == [t |-> "file", s |-> x, n |-> 0]

EmptyDict == [k \in {} |-> PyNone]

\* d1 overridden by d2, as dict.update and keyword binding over defaults do.
Update(d1, d2) == [k \in DOMAIN d1 \cup DOMAIN d2 |-> IF k \in DOMAIN d2 THEN d2[k] ELSE d1[k]]

\* Whether Python takes v for false.
Falsy(v) == v \in {PyNone, PyStr(""), PyInt(0), PyFloat("0.0"), PyBool(FALSE)}

\* Mutant of DropNone: the filter written "if v", which drops every falsy value.
DropFalsy(payload) == [k \in {x \in DOMAIN payload : ~Falsy(payload[x])} |-> payload[k]]

\* {k: v for k, v in payload.items() if v is not None}
DropNone(payload) == [k \in {x \in DOMAIN payload : payload[x] # PyNone} |-> payload[k]]

-----------------------------------------------------------------------------
(* Configuration and session (ClientConfig, _build_session).               *)

\* ClientConfig.timeout, seconds.
DefaultTimeout == 118

\* Retry(total=3, connect=3, read=3, ...): the retries allowed after the first attempt.
RetryTotal == 3
RetryConnect == 3
RetryRead == 3

\* status_forcelist
status_forcelist == {429, 500, 502, 503, 504}

\* urllib3's Retry.RETRY_AFTER_STATUS_CODES, honoured because the Retry built
\* here leaves respect_retry_after_header at its default.
RETRY_AFTER_STATUS_CODES == {413, 429, 503}

\* Mutant of build_session: a Retry that allows two retries, three attempts in all.
build_session_two_retries == [total |-> 2, connect |-> RetryConnect, read |-> RetryRead]

\* The Retry object a new request starts with.
build_session == [total |-> RetryTotal, connect |-> RetryConnect, read |-> RetryRead]

\* No request in flight.
NoRetry == [total |-> 0, connect |-> 0, read |-> 0]

\* Values LLMPROXY_ENDPOINT and LLMPROXY_API_KEY can hold when construction succeeds.
Endpoints == {"https://proxy.example/api"}
ApiKeys == {"key-A", "key-B"}

\* What os.getenv gives for each setting once the env file is loaded: None
\* when it is not set, else its value, which may be empty.
EndpointSettings == {PyNone, PyStr("")} \cup {PyStr(e) : e \in Endpoints}
ApiKeySettings == {PyNone, PyStr("")} \cup {PyStr(k) : k \in ApiKeys}

\* The Session _build_session returns: a new object, told from others by
\* id, whose adapters carry the Retry.
new_session(id) == [id |-> id, max_retries |-> build_session]

\* No Session exists.
NoSession == [id |-> 0, max_retries |-> NoRetry]

\* No ClientConfig exists.
NoConfig == [endpoint |-> "", api_key |-> "", timeout |-> 0]

\* Mutant of from_env: only the endpoint is tested.
from_env_endpoint_only(endpoint, api_key) ==
    IF Falsy(endpoint)
    THEN [ok |-> FALSE, config |-> NoConfig]
    ELSE [ok |-> TRUE,
          config |-> [endpoint |-> endpoint.s, api_key |-> api_key.s, timeout |-> DefaultTimeout]]

\* ClientConfig.from_env: ok is FALSE where it raises ValueError.
from_env(endpoint, api_key) ==
    IF Falsy(endpoint) \/ Falsy(api_key)
    THEN [ok |-> FALSE, config |-> NoConfig]
    ELSE [ok |-> TRUE,
          config |-> [endpoint |-> endpoint.s, api_key |-> api_key.s, timeout |-> DefaultTimeout]]

\* Retry.is_retry for a POST: a forced status, or a Retry-After header on a
\* status that honours it while retries are left.
is_retry(r, status, has_retry_after) ==
    \/ status \in status_forcelist
    \/ (r.total # 0 /\ has_retry_after /\ status \in RETRY_AFTER_STATUS_CODES)

\* Retry.increment: cause is "status", "connect" or "read".
increment(r, cause) ==
    [total |-> r.total - 1,
     connect |-> IF cause = "connect" THEN r.connect - 1 ELSE r.connect,
     read |-> IF cause = "read" THEN r.read - 1 ELSE r.read]

Min3(a, b, c) == IF a <= b /\ a <= c THEN a ELSE IF b <= c THEN b ELSE c

\* Mutant of is_exhausted: the retries never run out.
is_exhausted_never(r) == FALSE

\* Retry.is_exhausted
is_exhausted(r) == Min3(r.total, r.connect, r.read) < 0

-----------------------------------------------------------------------------
(* The remote service's answers.                                           *)

\* Status codes the service answers with (redirects are left out: requests
\* follows them itself and they are no part of the client's contract).
Statuses == {200, 204, 403, 413, 503}

\* Response bodies, as raw text.
BodyErrorObject == "{\"error\": \"invalid key\"}"
BodyResultObject == "{\"result\": \"hi\"}"
BodyArray == "[]"
BodyNumber == "5"
BodyText == "OK"
Bodies == {BodyErrorObject, BodyResultObject, BodyArray, BodyNumber, BodyText}

Responses == [status_code : Statuses, text : Bodies, retry_after : BOOLEAN]

\* Failures of one attempt inside the transport.
TransportErrors == {"connect", "read"}

NoResponse == [status_code |-> 0, text |-> "", retry_after |-> FALSE]

\* What the model may write as the result of a grading: the text of
\* {"result": text}.
ResultTexts == {"SCORE: 8/10 points", "7/0", "12/10", "3 / 4 then 9/10", "9.5/10.", "well done", ""}
GradePrefix == "{\"result\": \""
GradeBodies == {GradePrefix \o t \o "\"}" : t \in ResultTexts}

\* json.loads on the bodies above: ok is FALSE where it raises ValueError.
json_loads(text) ==
    CASE text = BodyErrorObject -> [ok |-> TRUE, v |-> PyDict([error |-> PyStr("invalid key")])]
      [] text = BodyResultObject -> [ok |-> TRUE, v |-> PyDict([result |-> PyStr("hi")])]
      [] text = BodyArray -> [ok |-> TRUE, v |-> PyList]
      [] text = BodyNumber -> [ok |-> TRUE, v |-> PyInt(5)]
      [] text \in GradeBodies ->
            [ok |-> TRUE, v |-> PyDict([result |-> PyStr(SubSeq(text, Len(GradePrefix) + 1, Len(text) - 2))])]
      [] OTHER -> [ok |-> FALSE, v |-> PyNone]

\* str(v) as an f-string formats it.
py_str(v) ==
    CASE v.t = "str" -> v.s
      [] v.t = "int" -> ToString(v.n)
      [] v.t = "float" -> v.s
      [] v.t = "bool" -> IF v.n = 1 THEN "True" ELSE "False"
      [] v.t = "list" -> "[]"
      [] OTHER -> "None"

-----------------------------------------------------------------------------
(* Results: what a call gives its caller.                                  *)

Returned(v) == [kind |-> "return", value |-> v, exc |-> ""]
Raised(e) == [kind |-> "raise", value |-> PyNone, exc |-> e]
NoResult == [kind |-> "none", value |-> PyNone, exc |-> ""]

\* {"error": message, "status_code": status}
ErrorEnvelope(message, status) == PyDict([error |-> PyStr(message), status_code |-> status])


\* What the transport's exception prints as, once requests has wrapped it.
ExceptionText(e) == IF e = "connect" THEN "connection refused" ELSE "read timed out"

\* Mutant of network_error: the except clause is missing and the transport's
\* exception reaches the caller.
network_error_raises(e) == Raised("ConnectionError")

\* except requests.exceptions.RequestException as e: the network error envelope.
network_error(e) == Returned(ErrorEnvelope("Network error: " \o ExceptionText(e), PyNone))

\* resp.json().get("error", resp.text) and its except ValueError; raises
\* AttributeError when the body is JSON but no object.
error_detail(r) ==
    LET parsed == json_loads(r.text) IN
    IF ~parsed.ok THEN [ok |-> TRUE, v |-> PyStr(r.text)]
    ELSE IF parsed.v.t # "dict" THEN [ok |-> FALSE, v |-> PyNone]
    ELSE IF "error" \in DOMAIN parsed.v.d THEN [ok |-> TRUE, v |-> parsed.v.d["error"]]
    ELSE [ok |-> TRUE, v |-> PyStr(r.text)]

\* The else branch shared by _post_json, upload_file and upload_text.
http_error(r) ==
    LET detail == error_detail(r) IN
    IF ~detail.ok THEN Raised("AttributeError")
    ELSE Returned(ErrorEnvelope("HTTP " \o ToString(r.status_code) \o ": " \o py_str(detail.v),
                                PyInt(r.status_code)))

\* Mutant of post_json_result: the envelope for a 2xx body that is no JSON
\* loses the status of the response.
post_json_result_no_status(r) ==
    IF 200 <= r.status_code /\ r.status_code < 300
    THEN LET parsed == json_loads(r.text) IN
         IF parsed.ok THEN Returned(parsed.v)
         ELSE Returned(ErrorEnvelope("Invalid JSON in response", PyNone))
    ELSE http_error(r)

\* _post_json, from the response on.
post_json_result(r) ==
    IF 200 <= r.status_code /\ r.status_code < 300
    THEN LET parsed == json_loads(r.text) IN
         IF parsed.ok THEN Returned(parsed.v)
         ELSE Returned(ErrorEnvelope("Invalid JSON in response", PyInt(r.status_code)))
    ELSE http_error(r)

\* generate, after _post_json: the test "error" in res raises TypeError on a
\* value that is no container; either branch returns res.
generate_result(res) ==
    IF res.kind = "raise" THEN res
    ELSE IF res.value.t \in {"dict", "list", "str"} THEN res
    ELSE Raised("TypeError")

\* upload_file, from the response on.
upload_file_result(r) ==
    IF 200 <= r.status_code /\ r.status_code < 300
    THEN LET parsed == json_loads(r.text) IN
         IF parsed.ok THEN Returned(parsed.v)
         ELSE Returned(PyDict([message |-> PyStr(r.text)]))
    ELSE http_error(r)

\* upload_text, from the response on.
upload_text_result(r) ==
    IF 200 <= r.status_code /\ r.status_code < 300
    THEN LET parsed == json_loads(r.text) IN
         IF parsed.ok THEN Returned(parsed.v)
         ELSE Returned(PyDict([message |-> PyStr(r.text)]))
    ELSE http_error(r)

\* The result of operation op once session.post has returned response r.
Finish(op, r) ==
    CASE op = "generate" -> generate_result(post_json_result(r))
      [] op = "upload_file" -> upload_file_result(r)
      [] op = "upload_text" -> upload_text_result(r)
      [] OTHER -> post_json_result(r)

-----------------------------------------------------------------------------
(* Requests.                                                               *)

\* Mutant of headers: the request type of generate is sent whatever the operation.
headers_always_call(request_type, extra) ==
    LET base == ("x-api-key" :> config.api_key) @@ ("request_type" :> "call") IN
    IF DOMAIN extra # {} THEN Update(base, extra) ELSE base

\* LLMProxy._headers
headers(request_type, extra) ==
    LET base == ("x-api-key" :> config.api_key) @@ ("request_type" :> request_type) IN
    IF DOMAIN extra # {} THEN Update(base, extra) ELSE base

NoHeaders == [k \in {} |-> ""]
NoFiles == [k \in {} |-> [content |-> PyNone, content_type |-> ""]]
NoRequest == [kind |-> "none", url |-> "", headers |-> NoHeaders, json |-> EmptyDict,
              files |-> NoFiles, body |-> NoFiles, timeout |-> 0]

\* The multipart body requests encodes from files=: a part whose content is
\* None is left out.
encode_files(files) == [k \in {x \in DOMAIN files : files[x].content # PyNone} |-> files[k]]

\* session.post(endpoint, headers=..., json=clean_payload, timeout=...)
JsonRequest(request_type, clean_payload) ==
    [kind |-> "json", url |-> config.endpoint, headers |-> headers(request_type, NoHeaders),
     json |-> clean_payload, files |-> NoFiles, body |-> NoFiles, timeout |-> config.timeout]

\* session.post(endpoint, headers=..., files=files, timeout=...)
MultipartRequest(request_type, files) ==
    [kind |-> "multipart", url |-> config.endpoint, headers |-> headers(request_type, NoHeaders),
     json |-> EmptyDict, files |-> files, body |-> encode_files(files), timeout |-> config.timeout]

\* json.dumps of one scalar.
json_scalar(v) ==
    CASE v.t = "str" -> "\"" \o v.s \o "\""
      [] v.t = "int" -> ToString(v.n)
      [] v.t = "float" -> v.s
      [] v.t = "bool" -> IF v.n = 1 THEN "true" ELSE "false"
      [] OTHER -> "null"

\* The keys of the params literal, in the order the literal gives them.
ParamsOrder == <<"description", "session_id", "strategy">>

RECURSIVE json_items(_, _, _)
json_items(d, keys, first) ==
    IF keys = <<>> THEN ""
    ELSE IF Head(keys) \notin DOMAIN d THEN json_items(d, Tail(keys), first)
    ELSE (IF first THEN "" ELSE ", ")
         \o "\"" \o Head(keys) \o "\": " \o json_scalar(d[Head(keys)])
         \o json_items(d, Tail(keys), FALSE)

\* json.dumps(params)
json_dumps(d) == "{" \o json_items(d, ParamsOrder, TRUE) \o "}"


-----------------------------------------------------------------------------
(* Arguments callers pass.                                                 *)

\* What a caller may pass for parameter k: None first, then the other values.
Choice(k) ==
    CASE k = "model" -> <<PyNone, PyStr("4o-mini")>>
      [] k = "system" -> <<PyNone, PyStr("")>>
      [] k = "query" -> <<PyNone, PyStr("hi")>>
      [] k = "temperature" -> <<PyNone, PyFloat("0.0")>>
      [] k = "lastk" -> <<PyNone, PyInt(0)>>
      [] k = "session_id" -> <<PyNone, PyStr("s1")>>
      [] k = "rag_threshold" -> <<PyNone, PyFloat("0.3")>>
      [] k = "rag_usage" -> <<PyNone, PyBool(TRUE), PyBool(FALSE)>>
      [] k = "rag_k" -> <<PyNone, PyInt(0)>>
      [] k = "file_path" -> <<PyNone, PyStr("hw1.pdf"), PyStr("notes.txt"),
                              PyStr("HW2.PDF"), PyStr(".pdf"), PyStr("v1.2/pdf")>>
      [] k = "mime_type" -> <<PyNone, PyStr("text/plain")>>
      [] k = "description" -> <<PyNone, PyStr("Course Syllabus")>>
      [] k = "strategy" -> <<PyNone, PyStr("fixed")>>
      [] OTHER -> <<PyNone, PyStr("some text")>>

\* The keyword bindings of one call: every parameter of req, any of opt, each
\* bound to one of its choices from index lo (lo = 2 leaves None out) to hi.
Kw(req, opt, lo, hi) ==
    UNION {{[k \in D |-> Choice(k)[c[k]]] :
                c \in {x \in [D -> lo..hi] : \A k \in D : x[k] <= Len(Choice(k))}} :
           D \in {req \cup S : S \in SUBSET opt}}

\* The state of the local path upload_file is given.
PathStates == {"missing", "regular", "directory", "unreadable"}
NoPath == "n/a"

GenerateRequired == {"model", "system", "query"}
GenerateOptional == {"temperature", "lastk", "session_id", "rag_threshold", "rag_usage", "rag_k"}
RetrieveRequired == {"query", "session_id", "rag_threshold", "rag_k"}
UploadFileRequired == {"file_path", "session_id"}
UploadFileOptional == {"mime_type", "description", "strategy"}
UploadTextRequired == {"text", "session_id"}
UploadTextOptional == {"description", "strategy"}

\* Mutant of GenerateDefaults: every optional parameter defaults to None.
GenerateDefaults_all_none ==
    [temperature |-> PyNone, lastk |-> PyNone, session_id |-> PyNone,
     rag_threshold |-> PyNone, rag_usage |-> PyNone, rag_k |-> PyNone]

\* The defaults of generate's signature.
GenerateDefaults ==
    [temperature |-> PyNone, lastk |-> PyNone, session_id |-> PyStr("GenericSession"),
     rag_threshold |-> PyFloat("0.5"), rag_usage |-> PyBool(FALSE), rag_k |-> PyInt(5)]

\* The defaults of upload_file's signature.
UploadFileDefaults == [mime_type |-> PyNone, description |-> PyNone, strategy |-> PyStr("smart")]

\* The defaults of upload_text's signature.
UploadTextDefaults == [description |-> PyNone, strategy |-> PyStr("smart")]

NoCall == [op |-> "none", kw |-> EmptyDict, path |-> NoPath]

\* No GradingBot exists.
NoBot == [pc |-> "none"]

\* The upload page is not open.
NoGui == [pc |-> "none"]

\* The threads that may call the client.
Threads == 1..MaxThreads

\* What belongs to one thread's call: the frame of the operation it runs.
Locals ==
    [pc |-> pc, call |-> call, sent |-> sent, retries |-> retries, attempts |-> attempts,
     answered |-> answered, postsBefore |-> postsBefore, resp |-> resp, result |-> result,
     opened |-> opened]

\* A thread that has not called yet.
IdleLocals ==
    [pc |-> "idle", call |-> NoCall, sent |-> NoRequest, retries |-> NoRetry, attempts |-> 0,
     answered |-> <<>>, postsBefore |-> 0, resp |-> NoResponse, result |-> NoResult,
     opened |-> 0]

-----------------------------------------------------------------------------
(* The state after construction.                                           *)

Init ==
    /\ config \in {from_env(PyStr(e), PyStr(k)).config : e \in Endpoints, k \in ApiKeys}
    /\ session = new_session(1)
    /\ cur = 1
    /\ parked = [t \in Threads |-> IdleLocals]
    /\ pc = "idle"
    /\ call = NoCall
    /\ sent = NoRequest
    /\ retries = NoRetry
    /\ attempts = 0
    /\ answered = <<>>
    /\ posts = 0
    /\ postsBefore = 0
    /\ resp = NoResponse
    /\ result = NoResult
    /\ opened = 0
    /\ bot = NoBot
    /\ gui = NoGui
    /\ ast_Num = TRUE

-----------------------------------------------------------------------------
(* Operations.                                                             *)

\* The process before any client is constructed.
InitProcess ==
    /\ config = NoConfig
    /\ session = NoSession
    /\ cur = 1
    /\ parked = [t \in Threads |-> IdleLocals]
    /\ pc = "start"
    /\ call = NoCall
    /\ sent = NoRequest
    /\ retries = NoRetry
    /\ attempts = 0
    /\ answered = <<>>
    /\ posts = 0
    /\ postsBefore = 0
    /\ resp = NoResponse
    /\ result = NoResult
    /\ opened = 0
    /\ bot = NoBot
    /\ gui = NoGui
    /\ ast_Num = TRUE

\* LLMProxy.__init__ in an environment that gives endpoint and api_key for
\* the two settings: the ValueError of from_env leaves no client behind.
construct(endpoint, api_key) ==
    /\ pc = "start"
    /\ LET c == from_env(endpoint, api_key) IN
       /\ config' = c.config
       /\ pc' = IF c.ok THEN "idle" ELSE "failed"
       /\ result' = IF c.ok THEN NoResult ELSE Raised("ValueError")
    /\ call' = [op |-> "__init__",
                kw |-> [LLMPROXY_ENDPOINT |-> endpoint, LLMPROXY_API_KEY |-> api_key],
                path |-> NoPath]
    /\ session' = IF from_env(endpoint, api_key).ok THEN new_session(1) ELSE NoSession
    /\ UNCHANGED <<ast_Num, cur, parked, sent, retries, attempts, answered, posts, postsBefore, resp, opened, bot, gui>>

\* Mutant of session_post: every call builds itself a new session.
session_post_new_session(op, kw, path, request) ==
    /\ pc' = "post"
    /\ call' = [op |-> op, kw |-> kw, path |-> path]
    /\ sent' = request
    /\ session' = new_session(session.id + 1)
    /\ retries' = build_session
    /\ attempts' = 0
    /\ answered' = <<>>
    /\ posts' = posts + 1
    /\ postsBefore' = posts
    /\ resp' = NoResponse
    /\ result' = NoResult
    /\ opened' = IF op = "upload_file" THEN 1 ELSE 0
    /\ UNCHANGED <<ast_Num, cur, parked, config, bot, gui>>

\* The call hands request to session.post and waits for it.
session_post(op, kw, path, request) ==
    /\ pc' = "post"
    /\ call' = [op |-> op, kw |-> kw, path |-> path]
    /\ sent' = request
    /\ retries' = session.max_retries
    /\ attempts' = 0
    /\ answered' = <<>>
    /\ posts' = posts + 1
    /\ postsBefore' = posts
    /\ resp' = NoResponse
    /\ result' = NoResult
    /\ opened' = IF op = "upload_file" THEN 1 ELSE 0
    /\ UNCHANGED <<ast_Num, cur, parked, config, session, bot, gui>>

\* The call ends before any request is made.
local_end(op, kw, path, res) ==
    /\ pc' = "done"
    /\ call' = [op |-> op, kw |-> kw, path |-> path]
    /\ sent' = NoRequest
    /\ retries' = NoRetry
    /\ attempts' = 0
    /\ answered' = <<>>
    /\ postsBefore' = posts
    /\ resp' = NoResponse
    /\ result' = res
    /\ opened' = 0
    /\ UNCHANGED <<ast_Num, cur, parked, config, session, posts, bot, gui>>

\* LLMProxy._post_json, up to session.post.
post_json(op, kw, request_type, payload) ==
    session_post(op, kw, NoPath, JsonRequest(request_type, DropNone(payload)))

\* LLMProxy.retrieve
retrieve(kw, max_posts) ==
    /\ pc \in {"idle", "done"}
    /\ posts < max_posts
    /\ post_json("retrieve", kw, "retrieve",
                 [query |-> kw["query"], session_id |-> kw["session_id"],
                  rag_threshold |-> kw["rag_threshold"], rag_k |-> kw["rag_k"]])

\* LLMProxy.model_info
model_info(max_posts) ==
    /\ pc \in {"idle", "done"}
    /\ posts < max_posts
    /\ post_json("model_info", EmptyDict, "model_info", EmptyDict)

\* LLMProxy.generate
generate(kw, max_posts) ==
    /\ pc \in {"idle", "done"}
    /\ posts < max_posts
    /\ LET a == Update(GenerateDefaults, kw) IN
       post_json("generate", kw, "call",
                 [model |-> a["model"], system |-> a["system"], query |-> a["query"],
                  temperature |-> a["temperature"], lastk |-> a["lastk"],
                  session_id |-> a["session_id"], rag_threshold |-> a["rag_threshold"],
                  rag_usage |-> a["rag_usage"], rag_k |-> a["rag_k"]])


\* path.suffix.lower() for the paths callers pass.
\* str.rfind, counting from 1: the last place c stands in s, or 0.
rfind(s, c) ==
    LET at == {i \in 1..Len(s) : SubSeq(s, i, i) = c}
    IN IF at = {} THEN 0 ELSE CHOOSE i \in at : \A j \in at : j <= i

\* PurePath.name: the final component of the path.
name(p) == SubSeq(p, rfind(p, "/") + 1, Len(p))

\* PurePath.suffix: the final component from its last dot on, unless that
\* dot is its first or its last character.
suffix(p) ==
    LET n == name(p)
        i == rfind(n, ".")
    IN IF 1 < i /\ i < Len(n) THEN SubSeq(n, i, Len(n)) ELSE ""

ascii_uppercase == "ABCDEFGHIJKLMNOPQRSTUVWXYZ"
ascii_lowercase == "abcdefghijklmnopqrstuvwxyz"

lower_char(c) ==
    LET at == {i \in 1..Len(ascii_uppercase) : SubSeq(ascii_uppercase, i, i) = c}
    IN IF at = {} THEN c ELSE LET i == CHOOSE i \in at : TRUE IN SubSeq(ascii_lowercase, i, i)

\* Mutant of lower: the suffix is compared as written.
lower_as_written(s) == s

\* str.lower
RECURSIVE lower(_)
lower(s) == IF s = "" THEN "" ELSE lower_char(SubSeq(s, 1, 1)) \o lower(Tail(s))

\* path.suffix.lower()
suffix_lower(p) == lower(suffix(p))

\* The params dict of upload_file and upload_text, None values removed.
upload_params(a) ==
    DropNone([description |-> a["description"], session_id |-> a["session_id"],
              strategy |-> a["strategy"]])

\* Mutant of upload_file: the test of path.exists() is left out, so a missing
\* path reaches path.open, which raises FileNotFoundError.
upload_file_unchecked(kw, path, max_posts) ==
    /\ pc \in {"idle", "done"}
    /\ LET a == Update(UploadFileDefaults, kw)
           mime_type == IF a["mime_type"] = PyNone
                        THEN (IF suffix_lower(a["file_path"].s) = ".pdf"
                              THEN "application/pdf" ELSE "application/octet-stream")
                        ELSE py_str(a["mime_type"])
           files == [params |-> [content |-> PyStr(json_dumps(upload_params(a))),
                                 content_type |-> "application/json"],
                     file |-> [content |-> PyFile(a["file_path"].s), content_type |-> mime_type]]
       IN
       \/ /\ a["file_path"] = PyNone
          /\ local_end("upload_file", kw, path, Raised("TypeError"))
       \/ /\ a["file_path"] # PyNone
          /\ path # "regular"
          /\ local_end("upload_file", kw, path,
                       Raised(CASE path = "missing" -> "FileNotFoundError"
                                [] path = "directory" -> "IsADirectoryError"
                                [] OTHER -> "PermissionError"))
       \/ /\ a["file_path"] # PyNone
          /\ path = "regular"
          /\ posts < max_posts
          /\ session_post("upload_file", kw, path, MultipartRequest("add", files))

\* LLMProxy.upload_file: Path(None) raises TypeError, a missing path ends the
\* call with an envelope, and path.open raises on a directory or a file the
\* process may not read.
upload_file(kw, path, max_posts) ==
    /\ pc \in {"idle", "done"}
    /\ LET a == Update(UploadFileDefaults, kw)
           mime_type == IF a["mime_type"] = PyNone
                        THEN (IF suffix_lower(a["file_path"].s) = ".pdf"
                              THEN "application/pdf" ELSE "application/octet-stream")
                        ELSE py_str(a["mime_type"])
           files == [params |-> [content |-> PyStr(json_dumps(upload_params(a))),
                                 content_type |-> "application/json"],
                     file |-> [content |-> PyFile(a["file_path"].s), content_type |-> mime_type]]
       IN
       \/ /\ a["file_path"] = PyNone
          /\ local_end("upload_file", kw, path, Raised("TypeError"))
       \/ /\ a["file_path"] # PyNone
          /\ path = "missing"
          /\ local_end("upload_file", kw, path,
                       Returned(ErrorEnvelope("File not found: " \o a["file_path"].s, PyNone)))
       \/ /\ a["file_path"] # PyNone
          /\ path \in {"directory", "unreadable"}
          /\ local_end("upload_file", kw, path,
                       Raised(IF path = "directory" THEN "IsADirectoryError" ELSE "PermissionError"))
       \/ /\ a["file_path"] # PyNone
          /\ path = "regular"
          /\ posts < max_posts
          /\ session_post("upload_file", kw, path, MultipartRequest("add", files))

\* LLMProxy.upload_text
upload_text(kw, max_posts) ==
    /\ pc \in {"idle", "done"}
    /\ posts < max_posts
    /\ LET a == Update(UploadTextDefaults, kw)
           files == [params |-> [content |-> PyStr(json_dumps(upload_params(a))),
                                 content_type |-> "application/json"],
                     text |-> [content |-> a["text"], content_type |-> "application/text"]]
       IN session_post("upload_text", kw, NoPath, MultipartRequest("add", files))

-----------------------------------------------------------------------------
(* The transport: one HTTP attempt at a time, under the session's Retry.   *)

\* An attempt is answered with a status the Retry retries, and retries are left.
RetryResponse(r) ==
    /\ pc = "post"
    /\ is_retry(retries, r.status_code, r.retry_after)
    /\ ~is_exhausted(increment(retries, "status"))
    /\ attempts < MaxAttempts
    /\ attempts' = attempts + 1
    /\ answered' = Append(answered, r.status_code)
    /\ retries' = increment(retries, "status")
    /\ UNCHANGED <<ast_Num, cur, parked, config, session, pc, call, sent, posts, postsBefore, resp, result,
                   opened, bot, gui>>

\* An attempt is answered with the response session.post returns: a status
\* that is not retried, or a retried one with the retries exhausted
\* (raise_on_status=False).  The calling operation then builds its result.
FinalResponse(r) ==
    /\ pc = "post"
    /\ \/ ~is_retry(retries, r.status_code, r.retry_after)
       \/ is_exhausted(increment(retries, "status"))
    /\ attempts' = attempts + 1
    /\ answered' = Append(answered, r.status_code)
    /\ retries' = NoRetry
    /\ resp' = r
    /\ result' = Finish(call.op, r)
    /\ pc' = "done"
    /\ UNCHANGED <<ast_Num, cur, parked, config, session, call, sent, posts, postsBefore, opened, bot, gui>>

\* An attempt fails inside the transport and retries are left.
RetryError(e) ==
    /\ pc = "post"
    /\ ~is_exhausted(increment(retries, e))
    /\ attempts < MaxAttempts
    /\ attempts' = attempts + 1
    /\ answered' = Append(answered, 0)
    /\ retries' = increment(retries, e)
    /\ UNCHANGED <<ast_Num, cur, parked, config, session, pc, call, sent, posts, postsBefore, resp, result,
                   opened, bot, gui>>

\* An attempt fails with the retries exhausted: session.post raises a
\* RequestException, which every operation catches.
FinalError(e) ==
    /\ pc = "post"
    /\ is_exhausted(increment(retries, e))
    /\ attempts' = attempts + 1
    /\ answered' = Append(answered, 0)
    /\ retries' = NoRetry
    /\ result' = network_error(e)
    /\ pc' = "done"
    /\ UNCHANGED <<ast_Num, cur, parked, config, session, call, sent, posts, postsBefore, resp, opened, bot, gui>>

-----------------------------------------------------------------------------
(* GradingBot (src/py/gradingBot/gradingBot.py): score extraction.  The    *)
(* floats of the score arithmetic are exact rationals here.                *)

RECURSIVE Gcd(_, _)
Gcd(a, b) == IF b = 0 THEN a ELSE Gcd(b, a % b)

\* The number n/d in lowest terms, d > 0.
Rat(n, d) == LET g == Gcd(n, d) IN [num |-> n \div g, den |-> d \div g]
RatMul(x, y) == Rat(x.num * y.num, x.den * y.den)
RatDiv(x, y) == Rat(x.num * y.den, x.den * y.num)
RatLeq(x, y) == x.num * y.den <= y.num * x.den

\* The character of s at place i, or "" outside s.
CharAt(s, i) == IF 1 <= i /\ i <= Len(s) THEN SubSeq(s, i, i) ELSE ""

digits == "0123456789"
IsDigit(c) == \E i \in 1..Len(digits) : SubSeq(digits, i, i) = c
digit_value(c) == (CHOOSE i \in 1..Len(digits) : SubSeq(digits, i, i) = c) - 1

\* \d* from place i: the place after the digits.
RECURSIVE skip_digits(_, _)
skip_digits(s, i) == IF IsDigit(CharAt(s, i)) THEN skip_digits(s, i + 1) ELSE i

\* \s* from place i: the place after the white space.
RECURSIVE skip_spaces(_, _)
skip_spaces(s, i) == IF CharAt(s, i) \in {" ", "\n", "\t"} THEN skip_spaces(s, i + 1) ELSE i

\* (\d+\.?\d*) at place i: the place after the match, or 0 when there is none.
match_number(s, i) ==
    IF ~IsDigit(CharAt(s, i)) THEN 0
    ELSE LET j == skip_digits(s, i)
             k == IF CharAt(s, j) = "." THEN j + 1 ELSE j
         IN skip_digits(s, k)

NoMatch == [ok |-> FALSE, group1 |-> "", group2 |-> ""]

\* The pattern (\d+\.?\d*)\s*/\s*(\d+\.?\d*) at place i.
match_at(s, i) ==
    LET a == match_number(s, i)
        b == skip_spaces(s, a)
        c == skip_spaces(s, b + 1)
        d == match_number(s, c)
    IN IF a # 0 /\ CharAt(s, b) = "/" /\ d # 0
       THEN [ok |-> TRUE, group1 |-> SubSeq(s, i, a - 1), group2 |-> SubSeq(s, c, d - 1)]
       ELSE NoMatch

\* re.search of the pattern: the leftmost match.
re_search(s) ==
    LET at == {i \in 1..Len(s) : match_at(s, i).ok}
    IN IF at = {} THEN NoMatch ELSE match_at(s, CHOOSE i \in at : \A j \in at : i <= j)

RECURSIVE digits_value(_)
digits_value(s) ==
    IF s = "" THEN 0
    ELSE digits_value(SubSeq(s, 1, Len(s) - 1)) * 10 + digit_value(SubSeq(s, Len(s), Len(s)))

\* float() of a string the pattern matched: digits, then perhaps a dot and digits.
py_float(g) ==
    LET p == rfind(g, ".")
        whole == IF p = 0 THEN g ELSE SubSeq(g, 1, p - 1)
        fraction == IF p = 0 THEN "" ELSE SubSeq(g, p + 1, Len(g))
    IN Rat(digits_value(whole \o fraction), 10 ^ Len(fraction))

\* A float as a Python value.
PyNumber(x) == [t |-> "float", num |-> x.num, den |-> x.den]

\* The score of grade_submission for the result text and max_points (None or
\* an int): raised is TRUE where the division raises ZeroDivisionError.
extract_score(result_text, max_points) ==
    IF Falsy(max_points) \/ result_text = "" THEN [raised |-> FALSE, score |-> PyNone]
    ELSE LET score_match == re_search(result_text) IN
         IF ~score_match.ok THEN [raised |-> FALSE, score |-> PyNone]
         ELSE LET score == py_float(score_match.group1)
                  max_pts == py_float(score_match.group2)
              IN IF max_pts = Rat(max_points.n, 1) THEN [raised |-> FALSE, score |-> PyNumber(score)]
                 ELSE IF max_pts.num = 0 THEN [raised |-> TRUE, score |-> PyNone]
                 ELSE [raised |-> FALSE,
                       score |-> PyNumber(RatMul(RatDiv(score, max_pts), Rat(max_points.n, 1)))]

-----------------------------------------------------------------------------
(* GradingBot: construction and operations.  An operation of the bot is   *)
(* begun, calls the client (whose call runs as above) and takes the        *)
(* client's result up when the call has returned or raised.                *)

\* PurePath.stem: the final component without its suffix.
stem(p) == LET n == name(p) IN SubSeq(n, 1, Len(n) - Len(suffix(p)))

\* The session ids bots are constructed with.
BotSessionIds == {PyNone, PyStr("ta_jane")}

\* The fields GradingBot.__init__ sets, and the frame of no operation.
GradingBot(session_id) ==
    [pc |-> "idle", session_id |-> session_id, model |-> PyStr("4o-mini"),
     rag_threshold |-> PyFloat("0.3"), rag_k |-> PyInt(5), temperature |-> PyFloat("0.0"),
     uploaded_docs |-> <<>>,
     op |-> "none", args |-> EmptyDict, path |-> NoPath, next |-> "none", ops |-> <<>>,
     rag_result |-> PyNone, result |-> NoResult]

\* The five upload operations and the type each records.
DocType(op) ==
    CASE op = "upload_syllabus" -> "syllabus"
      [] op = "upload_homework_assignment" -> "homework_assignment"
      [] op = "upload_homework_solution" -> "homework_solution"
      [] op = "upload_lecture_material" -> "lecture_material"
      [] OTHER -> "textbook"

\* x or y
py_or(x, y) == IF Falsy(x) THEN y ELSE x

\* The description an upload operation sends and records.
upload_description(op, args) ==
    LET file_stem == PyStr(stem(args["file_path"].s)) IN
    CASE op = "upload_syllabus" -> py_or(args["description"], PyStr("Course Syllabus"))
      [] op = "upload_homework_assignment" ->
            py_or(args["description"],
                  PyStr("Homework Assignment: " \o py_str(py_or(args["assignment_name"], file_stem))))
      [] op = "upload_homework_solution" ->
            py_or(args["description"],
                  PyStr("Homework Solution: " \o py_str(py_or(args["assignment_name"], file_stem))))
      [] op = "upload_lecture_material" ->
            py_or(args["description"],
                  PyStr("Lecture Material: " \o py_str(py_or(args["lecture_name"], file_stem))))
      [] OTHER -> py_or(args["description"], PyStr("Course Textbook"))

\* The entry an upload operation appends to uploaded_docs.
upload_doc(op, args) ==
    LET named == DOMAIN args \cap {"assignment_name", "lecture_name"} IN
    [k \in {"type", "path", "description"} \cup named |->
        CASE k = "type" -> PyStr(DocType(op))
          [] k = "path" -> PyStr(py_str(args["file_path"]))
          [] k = "description" -> upload_description(op, args)
          [] OTHER -> args[k]]

\* sub in s, for strings
py_in(sub, s) == \E i \in 1..(Len(s) - Len(sub) + 1) : SubSeq(s, i, i + Len(sub) - 1) = sub

\* "error" in v: "TypeError" where v is no container.
contains_error(v) ==
    CASE v.t = "dict" -> IF "error" \in DOMAIN v.d THEN "yes" ELSE "no"
      [] v.t = "list" -> "no"
      [] v.t = "str" -> IF py_in("error", v.s) THEN "yes" ELSE "no"
      [] OTHER -> "TypeError"

\* The query grade_submission builds from its arguments.
grading_query(args) ==
    (IF Falsy(args["assignment_name"]) THEN ""
     ELSE "Assignment: " \o py_str(args["assignment_name"]) \o "\n")
    \o "Question: " \o py_str(args["question"])
    \o "\n" \o "\nStudent Answer:\n" \o py_str(args["student_answer"])
    \o (IF Falsy(args["rubric"]) THEN "" ELSE "\n" \o "\nGrading Rubric:\n" \o py_str(args["rubric"]))
    \o (IF Falsy(args["max_points"]) THEN ""
        ELSE "\n" \o "\nMaximum Points: " \o py_str(args["max_points"]))

\* The system prompt of grade_submission (the literal, cut after its first sentence).
system_prompt ==
    "You are an expert teaching assistant grading a student submission for a Discrete Math course."

\* GradingBot._format_rag_context on the lists the service of this model
\* returns, which are empty.
format_rag_context(rag_context) == ""

\* dict.get(key, default)
py_get(v, key, default) == IF key \in DOMAIN v.d THEN v.d[key] ELSE default

\* The uploads the bot is asked for: each operation, with and without the
\* optional name and description.
BotUploads ==
    {[op |-> "upload_syllabus",
      args |-> [file_path |-> PyStr("hw1.pdf"), description |-> PyNone]],
     [op |-> "upload_syllabus",
      args |-> [file_path |-> PyStr("hw1.pdf"), description |-> PyStr("Fall syllabus")]],
     [op |-> "upload_homework_assignment",
      args |-> [file_path |-> PyStr("hw1.pdf"), assignment_name |-> PyStr("HW1"), description |-> PyNone]],
     [op |-> "upload_homework_solution",
      args |-> [file_path |-> PyStr("hw1.pdf"), assignment_name |-> PyNone, description |-> PyNone]],
     [op |-> "upload_lecture_material",
      args |-> [file_path |-> PyStr("notes.txt"), lecture_name |-> PyStr("L1"), description |-> PyNone]],
     [op |-> "upload_textbook",
      args |-> [file_path |-> PyStr("hw1.pdf"), description |-> PyNone]]}

\* The max_points grade_submission is asked with.
MaxPointsChoices == {PyNone, PyInt(0), PyInt(4), PyInt(10)}

\* The arguments of grade_submission.
GradeArgs(max_points) ==
    [question |-> PyStr("Q1"), student_answer |-> PyStr("A1"), assignment_name |-> PyNone,
     rubric |-> PyNone, max_points |-> max_points]

\* GradingBot.__init__, with a client constructed and idle.
GradingBot_init(session_id) ==
    /\ bot = NoBot
    /\ pc = "idle"
    /\ bot' = GradingBot(session_id)
    /\ UNCHANGED <<ast_Num, cur, parked, config, session, pc, call, sent, retries, attempts, answered,
                   posts, postsBefore, resp, result, opened, gui>>

\* An operation of the bot is called: its frame is set up and the client
\* has no call running.  What the page does meanwhile is left to the caller.
BotBegin(op, args, path) ==
    /\ bot.pc \in {"idle", "done"}
    /\ pc \in {"idle", "done"}
    /\ posts + (IF op = "grade_submission" THEN 2 ELSE 1) <= MaxBotPosts
    /\ bot' = [bot EXCEPT !.pc = "call", !.op = op, !.args = args, !.path = path,
                          !.next = IF op = "grade_submission" THEN "retrieve" ELSE "upload_file",
                          !.ops = <<>>, !.rag_result = PyNone, !.result = NoResult]
    /\ pc' = "idle"
    /\ call' = NoCall
    /\ sent' = NoRequest
    /\ retries' = NoRetry
    /\ attempts' = 0
    /\ answered' = <<>>
    /\ postsBefore' = posts
    /\ resp' = NoResponse
    /\ result' = NoResult
    /\ opened' = 0
    /\ UNCHANGED <<ast_Num, cur, parked, config, session, posts>>

\* The bot's operation calls the client: upload_file for the five uploads,
\* retrieve and then generate for grade_submission.
BotCall ==
    /\ bot.pc = "call"
    /\ pc = "idle"
    /\ CASE bot.next = "upload_file" ->
              upload_file([file_path |-> bot.args["file_path"], session_id |-> bot.session_id,
                           description |-> upload_description(bot.op, bot.args),
                           strategy |-> PyStr("smart")],
                          bot.path, MaxBotPosts)
         [] bot.next = "retrieve" ->
              retrieve([query |-> PyStr(grading_query(bot.args)), session_id |-> bot.session_id,
                        rag_threshold |-> bot.rag_threshold, rag_k |-> bot.rag_k],
                       MaxBotPosts)
         [] OTHER ->
              generate([model |-> bot.model, system |-> PyStr(system_prompt),
                        query |-> PyStr(grading_query(bot.args)),
                        temperature |-> bot.temperature, session_id |-> bot.session_id,
                        rag_usage |-> PyBool(FALSE), rag_threshold |-> bot.rag_threshold,
                        rag_k |-> bot.rag_k],
                       MaxBotPosts)

\* Mutant of after_upload: the entry is appended whatever the client returned.
after_upload_always(b, res) ==
    IF res.kind = "raise" THEN [b EXCEPT !.pc = "done", !.result = res]
    ELSE [b EXCEPT !.pc = "done", !.result = res,
                   !.uploaded_docs = Append(@, upload_doc(b.op, b.args))]

\* The end of an upload operation: `if "error" not in result` appends the entry.
after_upload(b, res) ==
    IF res.kind = "raise" THEN [b EXCEPT !.pc = "done", !.result = res]
    ELSE CASE contains_error(res.value) = "TypeError" ->
                [b EXCEPT !.pc = "done", !.result = Raised("TypeError")]
           [] contains_error(res.value) = "no" ->
                [b EXCEPT !.pc = "done", !.result = res,
                          !.uploaded_docs = Append(@, upload_doc(b.op, b.args))]
           [] OTHER -> [b EXCEPT !.pc = "done", !.result = res]

\* Mutant of after_retrieve: an error envelope from retrieve is passed over
\* and generate is called all the same.
after_retrieve_goes_on(b, res) ==
    IF res.kind = "raise" THEN [b EXCEPT !.pc = "done", !.result = res]
    ELSE [b EXCEPT !.next = "generate", !.rag_result = res.value]

\* grade_submission after retrieve: an error envelope ends the operation,
\* anything else is read with .get and generate comes next.
after_retrieve(b, res) ==
    IF res.kind = "raise" THEN [b EXCEPT !.pc = "done", !.result = res]
    ELSE CASE contains_error(res.value) = "TypeError" ->
                [b EXCEPT !.pc = "done", !.result = Raised("TypeError")]
           [] contains_error(res.value) = "yes" ->
                [b EXCEPT !.pc = "done",
                          !.result = Returned(PyDict(
                              [error |-> PyStr("RAG retrieval failed: " \o py_str(res.value.d["error"])),
                               raw_response |-> res.value]))]
           [] res.value.t # "dict" ->
                [b EXCEPT !.pc = "done", !.result = Raised("AttributeError")]
           [] OTHER -> [b EXCEPT !.next = "generate", !.rag_result = res.value]

\* grade_submission after generate: the score is extracted from the result
\* text and the grading is returned.
after_generate(b, res) ==
    IF res.kind = "raise" THEN [b EXCEPT !.pc = "done", !.result = res]
    ELSE CASE contains_error(res.value) = "TypeError" ->
                [b EXCEPT !.pc = "done", !.result = Raised("TypeError")]
           [] contains_error(res.value) = "yes" ->
                [b EXCEPT !.pc = "done",
                          !.result = Returned(PyDict(
                              [error |-> PyStr("Grading generation failed: " \o py_str(res.value.d["error"])),
                               raw_response |-> res.value]))]
           [] res.value.t # "dict" ->
                [b EXCEPT !.pc = "done", !.result = Raised("AttributeError")]
           [] OTHER ->
                LET result_text == py_get(res.value, "result", PyStr(""))
                    formatted_context == format_rag_context(py_get(b.rag_result, "rag_context", PyList))
                    extracted == extract_score(result_text.s, b.args["max_points"])
                IN IF extracted.raised
                   THEN [b EXCEPT !.pc = "done", !.result = Raised("ZeroDivisionError")]
                   ELSE [b EXCEPT !.pc = "done",
                                  !.result = Returned(PyDict(
                                      [score |-> extracted.score,
                                       max_points |-> b.args["max_points"],
                                       feedback |-> result_text,
                                       rag_context_used |->
                                           PyStr(IF formatted_context # "" THEN formatted_context
                                                 ELSE "No relevant context retrieved"),
                                       raw_response |-> res.value]))]

\* The client's call has returned or raised and the bot's operation goes
\* on from it; before generate the client is idle again.
BotReturn ==
    /\ bot.pc = "call"
    /\ pc = "done"
    /\ LET b == [bot EXCEPT !.ops = Append(@, call.op)] IN
       bot' = CASE bot.next = "upload_file" -> after_upload(b, result)
                [] bot.next = "retrieve" -> after_retrieve(b, result)
                [] OTHER -> after_generate(b, result)
    /\ IF bot'.pc = "call"
       THEN /\ pc' = "idle"
            /\ call' = NoCall
            /\ sent' = NoRequest
            /\ retries' = NoRetry
            /\ attempts' = 0
            /\ answered' = <<>>
            /\ postsBefore' = posts
            /\ resp' = NoResponse
            /\ result' = NoResult
            /\ opened' = 0
       ELSE UNCHANGED <<pc, call, sent, retries, attempts, answered, postsBefore, resp, result, opened>>
    /\ UNCHANGED <<ast_Num, cur, parked, config, session, posts, gui>>

-----------------------------------------------------------------------------
(* The upload page of the web GUI: the button's handler calls the bot's    *)
(* upload operation and reports what it returned.                          *)

\* The page once opened: nothing shown, st.session_state.uploaded_docs empty.
UploadPage ==
    [pc |-> "idle", doc_type |-> "", name |-> "", assignment |-> "", description |-> "",
     shown |-> "none", uploaded_docs |-> <<>>]

\* The bot operation the handler calls for a document type.
DocTypeOperation(doc_type) ==
    CASE doc_type = "Syllabus" -> "upload_syllabus"
      [] doc_type = "Homework Assignment" -> "upload_homework_assignment"
      [] doc_type = "Homework Solution" -> "upload_homework_solution"
      [] doc_type = "Lecture Material" -> "upload_lecture_material"
      [] OTHER -> "upload_textbook"
DocTypes == {"Syllabus", "Homework Assignment", "Homework Solution", "Lecture Material", "Textbook"}

\* The arguments the handler passes to the bot operation.
DocTypeArgs(doc_type, temp_path, assignment_name, description) ==
    CASE doc_type \in {"Syllabus", "Textbook"} ->
            [file_path |-> PyStr(temp_path), description |-> PyStr(description)]
      [] doc_type = "Lecture Material" ->
            [file_path |-> PyStr(temp_path), lecture_name |-> PyStr(assignment_name),
             description |-> PyStr(description)]
      [] OTHER ->
            [file_path |-> PyStr(temp_path), assignment_name |-> PyStr(assignment_name),
             description |-> PyStr(description)]

\* The page is opened, with a bot in st.session_state.
GuiOpen ==
    /\ gui = NoGui
    /\ bot.pc = "idle"
    /\ gui' = UploadPage
    /\ UNCHANGED <<ast_Num, cur, parked, config, session, pc, call, sent, retries, attempts, answered,
                   posts, postsBefore, resp, result, opened, bot>>

\* The button is pressed with no file chosen.
GuiClickNoFile ==
    /\ gui.pc \in {"idle", "done"}
    /\ gui' = [gui EXCEPT !.pc = "done", !.shown = "select_file"]
    /\ UNCHANGED <<ast_Num, cur, parked, config, session, pc, call, sent, retries, attempts, answered,
                   posts, postsBefore, resp, result, opened, bot>>

\* The button is pressed with a file chosen: the file is written to the
\* temporary directory and the bot's operation for doc_type is called.
GuiClick(doc_type, file_name, assignment_name, description) ==
    /\ gui.pc \in {"idle", "done"}
    /\ posts < MaxGuiPosts
    /\ gui' = [gui EXCEPT !.pc = "uploading", !.doc_type = doc_type, !.name = file_name,
                          !.assignment = assignment_name, !.description = description,
                          !.shown = "none"]
    /\ BotBegin(DocTypeOperation(doc_type),
                DocTypeArgs(doc_type, "/tmp/" \o file_name, assignment_name, description),
                "regular")

\* What the handler shows for what the bot's operation returned or raised:
\* the branch is chosen by `"error" in result.get("result", {})`.
gui_report(res) ==
    IF res.kind = "raise" \/ res.value.t # "dict" THEN "exception"
    ELSE LET inner == py_get(res.value, "result", PyDict(EmptyDict)) IN
         CASE contains_error(inner) = "TypeError" -> "exception"
           [] contains_error(inner) = "no" -> "success"
           [] "error" \notin DOMAIN res.value.d -> "exception"
           [] res.value.d["error"].t # "str" -> "exception"
           [] \E too \in {"413", "Too Long", "Too Large"} : py_in(too, res.value.d["error"].s) ->
                "too_large"
           [] OTHER -> "upload_failed"

\* The bot's operation has ended and the handler reports it; on success it
\* appends to st.session_state.uploaded_docs.
GuiShow ==
    /\ gui.pc = "uploading"
    /\ bot.pc = "done"
    /\ LET shown == gui_report(bot.result) IN
       gui' = [gui EXCEPT !.pc = "done", !.shown = shown,
                          !.uploaded_docs =
                              IF shown = "success"
                              THEN Append(@, [type |-> gui.doc_type, name |-> gui.name,
                                              assignment |-> gui.assignment,
                                              description |-> gui.description])
                              ELSE @]
    /\ UNCHANGED <<ast_Num, cur, parked, config, session, pc, call, sent, retries, attempts, answered,
                   posts, postsBefore, resp, result, opened, bot>>

-----------------------------------------------------------------------------
(* tools.py: safe_eval and calculator_tool.  An expression is given as the *)
(* tree ast.parse builds from it, or as what makes ast.parse raise.  An    *)
(* int is exact; a float is num / den * 10 ^ e10, or inf.                  *)

Integer(n) == [t |-> "int", num |-> n, den |-> 1, e10 |-> 0]
Inf == [t |-> "float", num |-> 1, den |-> 0, e10 |-> 0]

\* The largest and the smallest power of ten a float holds (1.8e308, 5e-324).
FloatMax10Exp == 308
FloatMin10Exp == -324

\* num / den * 10 ^ e10 as a float, in lowest terms with den > 0: inf above
\* the float range and 0.0 below it.  The test is made on e10, which is
\* exact for the numbers of this model: their fractions lie within 1e-9 and
\* 1e9 and their exponents are multiples of 200.
Float(num, den, e10) ==
    IF num = 0 \/ e10 < FloatMin10Exp THEN [t |-> "float", num |-> 0, den |-> 1, e10 |-> 0]
    ELSE IF e10 > FloatMax10Exp THEN Inf
    ELSE LET s == IF den < 0 THEN -1 ELSE 1
             n == s * num
             d == s * den
             g == Gcd(IF n < 0 THEN -n ELSE n, d)
         IN [t |-> "float", num |-> n \div g, den |-> d \div g, e10 |-> e10]

\* float(x)
to_float(x) == [x EXCEPT !.t = "float"]

\* |x| > 1
AboveOne(x) == x.e10 > 0 \/ (x.e10 = 0 /\ (x.num > x.den \/ -x.num > x.den))

Value(v) == [exc |-> "", msg |-> "", value |-> v]
Raise(exc, msg) == [exc |-> exc, msg |-> msg, value |-> Integer(0)]

\* operator.add: a float that is 1e200 times another absorbs it.
op_add(x, y) ==
    IF x.t = "int" /\ y.t = "int" THEN Value(Integer(x.num + y.num))
    ELSE IF x.num = 0 THEN Value(to_float(y))
    ELSE IF y.num = 0 THEN Value(to_float(x))
    ELSE IF x.e10 = y.e10
         THEN Value(Float(x.num * y.den + y.num * x.den, x.den * y.den, x.e10))
    ELSE Value(to_float(IF x.e10 > y.e10 THEN x ELSE y))

\* operator.neg
op_neg(x) == Value([x EXCEPT !.num = -x.num])

\* operator.sub
op_sub(x, y) == op_add(x, op_neg(y).value)

\* operator.mul
op_mul(x, y) ==
    IF x.t = "int" /\ y.t = "int" THEN Value(Integer(x.num * y.num))
    ELSE Value(Float(x.num * y.num, x.den * y.den, x.e10 + y.e10))

\* operator.truediv
op_truediv(x, y) ==
    IF y.num = 0
    THEN Raise("ZeroDivisionError",
               IF x.t = "int" /\ y.t = "int" THEN "division by zero" ELSE "float division by zero")
    ELSE Value(Float(x.num * y.den, x.den * y.num, x.e10 - y.e10))

\* b ** k for ints, k >= 0
int_pow(b, k) == IF k = 0 THEN 1 ELSE b ^ k

\* operator.pow for the exponents of this model: ints, and floats that are
\* whole numbers.  A float result above the float range raises
\* OverflowError, one below it is 0.0.
op_pow(x, y) ==
    IF x.t = "int" /\ y.t = "int" /\ y.num >= 0 THEN Value(Integer(int_pow(x.num, y.num)))
    ELSE IF x.num = 0 /\ y.num < 0
         THEN Raise("ZeroDivisionError", "0.0 cannot be raised to a negative power")
    ELSE IF y.num = 0 THEN Value(Float(1, 1, 0))
    ELSE IF x.num = 0 THEN Value(Float(0, 1, 0))
    ELSE IF x.num = x.den /\ x.e10 = 0 THEN Value(Float(1, 1, 0))
    ELSE IF y.e10 = 0 /\ y.den = 1
         THEN LET k == IF y.num < 0 THEN -y.num ELSE y.num
                  e == x.e10 * y.num
              IN IF e > FloatMax10Exp
                 THEN Raise("OverflowError", "(34, 'Numerical result out of range')")
                 ELSE IF y.num > 0 THEN Value(Float(int_pow(x.num, k), int_pow(x.den, k), e))
                 ELSE Value(Float(int_pow(x.den, k), int_pow(x.num, k), e))
    ELSE IF AboveOne(x) = (y.num > 0)
         THEN Raise("OverflowError", "(34, 'Numerical result out of range')")
    ELSE Value(Float(0, 1, 0))

\* The keys of SAFE_OPERATORS, by the name of the ast class.
SAFE_OPERATORS == {"Add", "Sub", "Mult", "Div", "Pow", "USub"}

\* SAFE_OPERATORS[type(node.op)] applied to one or two operands.
apply_operator(op, args) ==
    CASE op = "Add" -> op_add(args[1], args[2])
      [] op = "Sub" -> op_sub(args[1], args[2])
      [] op = "Mult" -> op_mul(args[1], args[2])
      [] op = "Div" -> op_truediv(args[1], args[2])
      [] op = "Pow" -> op_pow(args[1], args[2])
      [] op = "USub" -> op_neg(args[1])

\* The nodes of the tree.
Num(n) == [node |-> "Num", n |-> n]
BinOp(op, left, right) == [node |-> "BinOp", op |-> op, left |-> left, right |-> right]
UnaryOp(op, operand) == [node |-> "UnaryOp", op |-> op, operand |-> operand]
OtherNode(class) == [node |-> class]

\* eval_node: what it raises or returns, and the operators it has called,
\* in order.  Where the ast module has no Num, the first isinstance test
\* raises AttributeError.
RECURSIVE eval_node(_, _)
eval_node(node, has_Num) ==
    IF ~has_Num
    THEN [exc |-> "AttributeError", msg |-> "module 'ast' has no attribute 'Num'",
          value |-> Integer(0), applied |-> <<>>]
    ELSE IF node.node = "Num"
    THEN [exc |-> "", msg |-> "", value |-> node.n, applied |-> <<>>]
    ELSE IF node.node = "BinOp"
    THEN IF node.op \notin SAFE_OPERATORS
         THEN [exc |-> "KeyError", msg |-> "<class 'ast." \o node.op \o "'>",
               value |-> Integer(0), applied |-> <<>>]
         ELSE LET left == eval_node(node.left, has_Num) IN
              IF left.exc # "" THEN left
              ELSE LET right == eval_node(node.right, has_Num) IN
                   IF right.exc # "" THEN [right EXCEPT !.applied = left.applied \o @]
                   ELSE LET r == apply_operator(node.op, <<left.value, right.value>>) IN
                        [exc |-> r.exc, msg |-> r.msg, value |-> r.value,
                         applied |-> left.applied \o right.applied \o <<node.op>>]
    ELSE IF node.node = "UnaryOp"
    THEN IF node.op \notin SAFE_OPERATORS
         THEN [exc |-> "KeyError", msg |-> "<class 'ast." \o node.op \o "'>",
               value |-> Integer(0), applied |-> <<>>]
         ELSE LET operand == eval_node(node.operand, has_Num) IN
              IF operand.exc # "" THEN operand
              ELSE LET r == apply_operator(node.op, <<operand.value>>) IN
                   [exc |-> r.exc, msg |-> r.msg, value |-> r.value,
                    applied |-> Append(operand.applied, node.op)]
    ELSE [exc |-> "TypeError", msg |-> "Unsupported expression", value |-> Integer(0),
          applied |-> <<>>]

\* What calculator_tool is given: text ast.parse builds a tree from, text it
\* raises SyntaxError on, or no text at all.
Parsed(body) == [parse |-> "tree", body |-> body]
NoSyntax == [parse |-> "SyntaxError"]
NoText == [parse |-> "TypeError"]

\* safe_eval
safe_eval(expr, has_Num) ==
    CASE expr.parse = "SyntaxError" ->
            [exc |-> "SyntaxError", msg |-> "invalid syntax (<unknown>, line 1)",
             value |-> Integer(0), applied |-> <<>>]
      [] expr.parse = "TypeError" ->
            [exc |-> "TypeError", msg |-> "compile() arg 1 must be a string, bytes or AST object",
             value |-> Integer(0), applied |-> <<>>]
      [] OTHER -> eval_node(expr.body, has_Num)

\* The classes `except Exception` catches, of those raised here.
Exceptions ==
    {"AttributeError", "KeyError", "OverflowError", "SyntaxError", "TypeError", "ZeroDivisionError"}

\* calculator_tool, as a function of its argument and of the ast module.
calculator(expression, has_Num) ==
    LET e == safe_eval(expression, has_Num) IN
    IF e.exc = "" THEN Returned(PyDict([result |-> e.value]))
    ELSE IF e.exc \in Exceptions THEN Returned(PyDict([error |-> PyStr(e.msg)]))
    ELSE Raised(e.exc)

\* calculator_tool
calculator_tool(expression) ==
    /\ pc \in {"idle", "done"}
    /\ pc' = "done"
    /\ call' = [op |-> "calculator_tool", kw |-> [expression |-> expression], path |-> NoPath]
    /\ result' = calculator(expression, ast_Num)
    /\ UNCHANGED <<ast_Num, cur, parked, config, session, sent, retries, attempts, answered,
                   posts, postsBefore, resp, opened, bot, gui>>

-----------------------------------------------------------------------------
(* Specifications.                                                         *)

\* Calls of each operation with every required argument given and not None.
SomeGenerate == Kw(GenerateRequired, {"temperature"}, 2, 3)
SomeRetrieve == Kw(RetrieveRequired, {}, 2, 3)
SomeUploadFile == Kw(UploadFileRequired, {}, 2, 3)
SomeUploadText == Kw(UploadTextRequired, {}, 2, 3)

\* Every way to call each operation, None included.
AllGenerate == Kw(GenerateRequired, GenerateOptional, 1, 3)
AllRetrieve == Kw(RetrieveRequired, {}, 1, 3)
AllUploadFile == Kw(UploadFileRequired, UploadFileOptional, 1, 6)
AllUploadText == Kw(UploadTextRequired, UploadTextOptional, 1, 3)

\* The answers of a service that is up.
SomeResponses == {r \in Responses : r.status_code = 200 /\ r.text = BodyResultObject /\ ~r.retry_after}

\* A few calls, every answer of the service.
Next ==
    \/ \E kw \in SomeGenerate : generate(kw, MaxPosts)
    \/ \E kw \in SomeRetrieve : retrieve(kw, MaxPosts)
    \/ model_info(MaxPosts)
    \/ \E kw \in SomeUploadFile, path \in PathStates : upload_file(kw, path, MaxPosts)
    \/ \E kw \in SomeUploadText : upload_text(kw, MaxPosts)
    \/ \E r \in Responses : RetryResponse(r)
    \/ \E r \in Responses : FinalResponse(r)
    \/ \E e \in TransportErrors : RetryError(e)
    \/ \E e \in TransportErrors : FinalError(e)

Spec == Init /\ [][Next]_vars

\* One HTTP attempt of the call in flight ends: with a response or inside the
\* transport, the timeout of config.timeout included.
Attempt ==
    \/ \E r \in Responses : RetryResponse(r)
    \/ \E r \in Responses : FinalResponse(r)
    \/ \E e \in TransportErrors : RetryError(e)
    \/ \E e \in TransportErrors : FinalError(e)

\* One call of the freshly constructed client and every answer of the
\* service, where every attempt ends.
NextLive ==
    \/ pc = "idle" /\ \E kw \in SomeGenerate : generate(kw, MaxPosts)
    \/ pc = "idle" /\ \E kw \in SomeRetrieve : retrieve(kw, MaxPosts)
    \/ pc = "idle" /\ model_info(MaxPosts)
    \/ pc = "idle" /\ \E kw \in SomeUploadFile, path \in PathStates : upload_file(kw, path, MaxPosts)
    \/ pc = "idle" /\ \E kw \in SomeUploadText : upload_text(kw, MaxPosts)
    \/ Attempt

SpecLive == Init /\ [][NextLive]_vars /\ WF_vars(Attempt)

\* The process from its start: construction in every environment, then the
\* calls and answers of Next.
NextConstruct ==
    \/ \E endpoint \in EndpointSettings, api_key \in ApiKeySettings : construct(endpoint, api_key)
    \/ Next

SpecConstruct == InitProcess /\ [][NextConstruct]_vars

\* Mutant of Switch: the request is kept on the client, one for all threads,
\* and not in the frame of the call.
Switch_request_on_client(t) ==
    /\ t \in Threads \ {cur}
    /\ cur' = t
    /\ parked' = [parked EXCEPT ![cur] = Locals, ![t] = IdleLocals]
    /\ pc' = parked[t].pc
    /\ call' = parked[t].call
    /\ sent' = IF sent.kind = "none" THEN parked[t].sent ELSE sent
    /\ retries' = parked[t].retries
    /\ attempts' = parked[t].attempts
    /\ answered' = parked[t].answered
    /\ postsBefore' = parked[t].postsBefore
    /\ resp' = parked[t].resp
    /\ result' = parked[t].result
    /\ opened' = parked[t].opened
    /\ UNCHANGED <<ast_Num, config, session, posts, bot, gui>>

\* The interpreter takes the running thread off and lets thread t run: each
\* thread finds the frame of its call as it left it, and all of them find
\* the same self.config and self.session.
Switch(t) ==
    /\ t \in Threads \ {cur}
    /\ cur' = t
    /\ parked' = [parked EXCEPT ![cur] = Locals, ![t] = IdleLocals]
    /\ pc' = parked[t].pc
    /\ call' = parked[t].call
    /\ sent' = parked[t].sent
    /\ retries' = parked[t].retries
    /\ attempts' = parked[t].attempts
    /\ answered' = parked[t].answered
    /\ postsBefore' = parked[t].postsBefore
    /\ resp' = parked[t].resp
    /\ result' = parked[t].result
    /\ opened' = parked[t].opened
    /\ UNCHANGED <<ast_Num, config, session, posts, bot, gui>>

\* A service whose answer tells which request it answers: generation may be
\* refused with 503, and each kind of request has a body of its own.
ServiceAnswers(request) ==
    IF request.kind = "none" THEN {}
    ELSE LET type == request.headers["request_type"] IN
         {r \in Responses :
            /\ ~r.retry_after
            /\ \/ type = "call" /\ r.status_code = 200 /\ r.text = BodyResultObject
               \/ type = "call" /\ r.status_code = 503 /\ r.text = BodyErrorObject
               \/ type = "retrieve" /\ r.status_code = 200 /\ r.text = BodyArray
               \/ type = "model_info" /\ r.status_code = 200 /\ r.text = BodyNumber
               \/ type = "add" /\ "file" \in DOMAIN request.body
                               /\ r.status_code = 200 /\ r.text = BodyText
               \/ type = "add" /\ "file" \notin DOMAIN request.body
                               /\ r.status_code = 200 /\ r.text = BodyErrorObject}

\* Every thread calls the one client once, and the threads are switched at
\* any point between the invocation of session.post, the attempts and the
\* return.
NextConcurrent ==
    \/ pc = "idle" /\ \E kw \in SomeGenerate : "temperature" \in DOMAIN kw /\ generate(kw, MaxThreads)
    \/ pc = "idle" /\ \E kw \in SomeRetrieve : retrieve(kw, MaxThreads)
    \/ pc = "idle" /\ model_info(MaxThreads)
    \/ pc = "idle" /\ \E kw \in SomeUploadFile :
                        kw["file_path"] = PyStr("hw1.pdf") /\ upload_file(kw, "regular", MaxThreads)
    \/ pc = "idle" /\ \E kw \in SomeUploadText : upload_text(kw, MaxThreads)
    \/ \E r \in ServiceAnswers(sent) : RetryResponse(r)
    \/ \E r \in ServiceAnswers(sent) : FinalResponse(r)
    \/ \E t \in Threads : Switch(t)

\* One client, constructed in one environment.
InitConcurrent == Init /\ config = from_env(PyStr("https://proxy.example/api"), PyStr("key-A")).config

SpecConcurrent == InitConcurrent /\ [][NextConcurrent]_vars

\* One call of the freshly constructed client, every way to call it, answered
\* by a service that is up.
NextRequests ==
    \/ pc = "idle" /\ \E kw \in AllGenerate : generate(kw, MaxPosts)
    \/ pc = "idle" /\ \E kw \in AllRetrieve : retrieve(kw, MaxPosts)
    \/ pc = "idle" /\ model_info(MaxPosts)
    \/ pc = "idle" /\ \E kw \in AllUploadFile, path \in PathStates : upload_file(kw, path, MaxPosts)
    \/ pc = "idle" /\ \E kw \in AllUploadText : upload_text(kw, MaxPosts)
    \/ \E r \in SomeResponses : FinalResponse(r)

SpecRequests == Init /\ [][NextRequests]_vars


-----------------------------------------------------------------------------
(* Properties.                                                             *)

Is2xx(status) == 200 <= status /\ status < 300

\* The current call has made attempts and each was answered with HTTP 503.
AllAnswered503 == Len(answered) >= 1 /\ \A i \in 1..Len(answered) : answered[i] = 503

\* The result is a returned error envelope carrying this status code.
IsErrorEnvelopeWith(status) ==
    /\ result.kind = "return"
    /\ result.value.t = "dict"
    /\ DOMAIN result.value.d = {"error", "status_code"}
    /\ result.value.d["status_code"] = status

\* The detail D of an HTTP error message as the specification words it: the
\* error field of a body that parses and has one, the raw text otherwise.
SpecifiedDetail(r) ==
    LET parsed == json_loads(r.text) IN
    IF parsed.ok /\ parsed.v.t = "dict" /\ "error" \in DOMAIN parsed.v.d
    THEN py_str(parsed.v.d["error"])
    ELSE r.text

\* {error: "HTTP S: D", status_code: S} for response r.
SpecifiedHttpError(r) ==
    Returned(ErrorEnvelope("HTTP " \o ToString(r.status_code) \o ": " \o SpecifiedDetail(r),
                           PyInt(r.status_code)))

\* C1: every public operation returns a value whatever the HTTP exchange and
\* the local condition of the upload path were; no exception escapes to the
\* caller.
C1_NoExceptionEscapes == result.kind # "raise"

C3_TwoRetriesThenSuccess ==
    (/\ Len(answered) >= 3
     /\ answered[1] = 503 /\ answered[2] = 503 /\ answered[3] = 200
     /\ json_loads(resp.text).ok)
    => (/\ pc = "done"
        /\ attempts = 3
        /\ result = Returned(json_loads(resp.text).v))

\* C4: a first response whose status is neither 2xx nor one of 429, 500, 502,
\* 503, 504 is never retried: the operation ends after exactly one HTTP
\* attempt with the envelope {error: "HTTP S: D", status_code: S}; a 403 with
\* body {"error": "invalid key"} gives "HTTP 403: invalid key".
C4_OtherStatusNotRetried ==
    (/\ Len(answered) >= 1
     /\ answered[1] # 0
     /\ ~Is2xx(answered[1])
     /\ answered[1] \notin {429, 500, 502, 503, 504})
    => (/\ pc = "done"
        /\ attempts = 1
        /\ result = SpecifiedHttpError(resp)
        /\ (resp.status_code = 403 /\ resp.text = BodyErrorObject)
              => result = Returned(ErrorEnvelope("HTTP 403: invalid key", PyInt(403))))

C6_MissingFileNoRequest ==
    (pc = "done" /\ call.op = "upload_file" /\ call.path = "missing")
    => (/\ result = Returned(ErrorEnvelope("File not found: " \o call.kw["file_path"].s, PyNone))
        /\ posts = postsBefore
        /\ attempts = 0
        /\ answered = <<>>
        /\ sent = NoRequest)

\* upload_file on a missing path has returned after an earlier call did use the transport.
C6_Witness ==
    /\ pc = "done"
    /\ call.op = "upload_file"
    /\ call.path = "missing"
    /\ posts = 1
    /\ result = Returned(ErrorEnvelope("File not found: notes.txt", PyNone))

\* C7: whatever the arguments of retrieve, the transmitted JSON body holds all
\* four keys query, session_id, rag_threshold and rag_k.
C7_RetrieveSendsAllFour ==
    (call.op = "retrieve" /\ sent.kind = "json")
    => DOMAIN sent.json = {"query", "session_id", "rag_threshold", "rag_k"}

\* The arguments of the current call that the caller gave with a value other than None.
SuppliedNonNull == {k \in DOMAIN call.kw : call.kw[k] # PyNone}

\* C8 as stated: the key set of the body generate transmits equals the set of
\* arguments the caller supplied with a non-null value; a parameter left
\* unset is absent and no key is transmitted with a null value.
C8_KeysAreSuppliedNonNull ==
    (call.op = "generate" /\ sent.kind = "json")
    => (/\ DOMAIN sent.json = SuppliedNonNull
        /\ \A k \in DOMAIN sent.json : sent.json[k] # PyNone)

\* C8 amended: the key set of the body generate transmits equals the set of
\* parameters whose value, as supplied or else as defaulted, is not null: the
\* arguments supplied with a non-null value, and session_id, rag_threshold,
\* rag_usage and rag_k with their defaults when the caller leaves them unset.
\* A parameter left unset is absent only when its default is null
\* (temperature, lastk); no key is transmitted with a null value.
C8_KeysAreEffectiveNonNull ==
    (call.op = "generate" /\ sent.kind = "json")
    => (/\ DOMAIN sent.json =
              SuppliedNonNull
              \cup ({"session_id", "rag_threshold", "rag_usage", "rag_k"} \ DOMAIN call.kw)
        /\ \A k \in DOMAIN sent.json : sent.json[k] # PyNone
        /\ \A k \in SuppliedNonNull : sent.json[k] = call.kw[k]
        /\ "session_id" \notin DOMAIN call.kw => sent.json["session_id"] = PyStr("GenericSession")
        /\ "rag_threshold" \notin DOMAIN call.kw => sent.json["rag_threshold"] = PyFloat("0.5")
        /\ "rag_usage" \notin DOMAIN call.kw => sent.json["rag_usage"] = PyBool(FALSE)
        /\ "rag_k" \notin DOMAIN call.kw => sent.json["rag_k"] = PyInt(5))

\* generate was called with lastk 0, session_id None and rag_k unset: the body
\* carries lastk and the default rag_k, and neither session_id nor temperature.
C8_Witness ==
    /\ call.op = "generate"
    /\ sent.kind = "json"
    /\ DOMAIN call.kw = {"model", "system", "query", "lastk", "session_id"}
    /\ call.kw["lastk"] = PyInt(0)
    /\ call.kw["session_id"] = PyNone
    /\ DOMAIN sent.json \cap {"lastk", "session_id", "temperature", "rag_k"} = {"lastk", "rag_k"}

\* The request_type each operation is to send.
SpecifiedRequestType(op) ==
    CASE op = "generate" -> "call"
      [] op = "retrieve" -> "retrieve"
      [] op = "model_info" -> "model_info"
      [] OTHER -> "add"

\* C9: every request sent carries exactly the two caller-set headers
\* x-api-key, equal to the configured API key, and request_type, which is
\* call for generate, retrieve for retrieve, model_info for model_info and
\* add for upload_file and upload_text.
C9_HeadersOfEveryRequest ==
    sent.kind # "none"
    => (/\ DOMAIN sent.headers = {"x-api-key", "request_type"}
        /\ sent.headers["x-api-key"] = config.api_key
        /\ sent.headers["request_type"] = SpecifiedRequestType(call.op)
        /\ sent.url = config.endpoint)

\* upload_text has sent a request typed add under the second API key.
C9_Witness ==
    /\ pc = "post"
    /\ call.op = "upload_text"
    /\ config.api_key = "key-B"
    /\ sent.headers["request_type"] = "add"
    /\ sent.headers["x-api-key"] = "key-B"

\* C10: for every operation and every final response with a status S that is
\* not 2xx the result is {error: "HTTP S: D", status_code: S}, D being the
\* error field of a body that parses as JSON and has it, and the raw
\* response text when the body does not parse or has no such field.
C10_HttpErrorEnvelope ==
    (pc = "done" /\ resp # NoResponse /\ ~Is2xx(resp.status_code))
    => result = SpecifiedHttpError(resp)



\* The current call ended on a failed attempt: session.post raised.
EndedOnTransportFailure ==
    pc = "done" /\ Len(answered) >= 1 /\ answered[Len(answered)] = 0

\* C11: for every operation, a network-level failure of the exchange, the
\* retries on such failures exhausted, is returned as {error: "Network
\* error: <description>", status_code: null}; it is never raised and never
\* reported with a numeric status code.
C11_NetworkErrorEnvelope ==
    EndedOnTransportFailure
    => (/\ result.kind = "return"
        /\ result.value.t = "dict"
        /\ DOMAIN result.value.d = {"error", "status_code"}
        /\ result.value.d["status_code"] = PyNone
        /\ result.value.d["error"] \in
              {PyStr("Network error: " \o ExceptionText(e)) : e \in TransportErrors}
        /\ resp = NoResponse)

\* upload_file has returned the network error envelope after its fourth
\* attempt timed out, earlier attempts having been answered 503.
C11_Witness ==
    /\ EndedOnTransportFailure
    /\ call.op = "upload_file"
    /\ attempts = 4
    /\ answered[1] = 503
    /\ result = Returned(ErrorEnvelope("Network error: read timed out", PyNone))


\* C12: for every operation, a 2xx response with a valid JSON body is
\* returned to the caller unchanged: the result equals the parsed body, no
\* key added, removed or renamed, also when the body has a key named error.
C12_SuccessReturnedUnchanged ==
    (pc = "done" /\ Is2xx(resp.status_code) /\ json_loads(resp.text).ok)
    => result = Returned(json_loads(resp.text).v)


\* C13: construction fails with a configuration error, before any request is
\* sent, exactly when the endpoint or the API key is missing or empty; every
\* client that exists has a non-empty endpoint and a non-empty api_key, and
\* so has every request.
C13_ConfigNonEmpty ==
    /\ (call.op = "__init__" /\ pc # "start")
          => (pc = "failed" <=>
                 \/ call.kw["LLMPROXY_ENDPOINT"] \in {PyNone, PyStr("")}
                 \/ call.kw["LLMPROXY_API_KEY"] \in {PyNone, PyStr("")})
    /\ pc = "failed"
          => (/\ call.op = "__init__"
              /\ result = Raised("ValueError")
              /\ posts = 0
              /\ sent = NoRequest)
    /\ pc \in {"idle", "post", "done"} => (config.endpoint # "" /\ config.api_key # "")
    /\ sent.kind # "none" => (sent.url # "" /\ sent.headers["x-api-key"] # "")

\* Construction has raised in an environment whose API key is set but empty.
C13_Witness ==
    /\ pc = "failed"
    /\ call.kw["LLMPROXY_ENDPOINT"] = PyStr("https://proxy.example/api")
    /\ call.kw["LLMPROXY_API_KEY"] = PyStr("")
    /\ result = Raised("ValueError")


\* Construction has succeeded.
ClientExists == pc \in {"idle", "post", "done"}

\* C14: once the client is constructed no operation, whatever its outcome,
\* changes endpoint, api_key or timeout or replaces the session object.
C14_ConfigAndSessionKept ==
    [][ClientExists => (config' = config /\ session' = session)]_vars

\* A second call has ended by raising, after a first call that made a
\* request, and the client still holds what construction gave it.
C14_Witness ==
    /\ pc = "done"
    /\ posts = 1
    /\ postsBefore = 1
    /\ call.op = "upload_file"
    /\ result.kind = "raise"
    /\ session = new_session(1)
    /\ config = from_env(PyStr("https://proxy.example/api"), PyStr("key-B")).config


\* s ends with t.
EndsWith(s, t) == Len(s) >= Len(t) /\ SubSeq(s, Len(s) - Len(t) + 1, Len(s)) = t

\* The final component of p: what follows its last slash.
FinalComponent(p) ==
    CHOOSE n \in {SubSeq(p, i, Len(p)) : i \in 1..(Len(p) + 1)} :
        /\ \A j \in 1..Len(n) : SubSeq(n, j, j) # "/"
        /\ (Len(n) < Len(p) => SubSeq(p, Len(p) - Len(n), Len(p) - Len(n)) = "/")

\* The extension .pdf in any letter case.
PdfExtensions == {"." \o p \o d \o f : p \in {"p", "P"}, d \in {"d", "D"}, f \in {"f", "F"}}

\* The current call is an upload_file that made its request and whose
\* caller gave no MIME type.
UploadFileSniffed ==
    /\ call.op = "upload_file"
    /\ sent.kind = "multipart"
    /\ "mime_type" \notin DOMAIN call.kw

\* C15 as stated: without an explicit MIME type the file part is typed
\* application/pdf when the path ends in .pdf and application/octet-stream
\* otherwise.
C15_PathEndsInPdf ==
    UploadFileSniffed
    => sent.files["file"].content_type =
          IF EndsWith(call.kw["file_path"].s, ".pdf")
          THEN "application/pdf" ELSE "application/octet-stream"

\* C15, amended: without an explicit MIME type the file part is typed
\* application/pdf when the final component of the path ends in .pdf in any
\* letter case and is longer than that extension, and
\* application/octet-stream otherwise.
C15_NameHasPdfExtension ==
    UploadFileSniffed
    => sent.files["file"].content_type =
          IF \E x \in PdfExtensions :
                /\ EndsWith(FinalComponent(call.kw["file_path"].s), x)
                /\ Len(FinalComponent(call.kw["file_path"].s)) > Len(x)
          THEN "application/pdf" ELSE "application/octet-stream"

\* An upper-case extension was typed application/pdf.
C15_Witness ==
    /\ UploadFileSniffed
    /\ call.kw["file_path"] = PyStr("HW2.PDF")
    /\ sent.files["file"].content_type = "application/pdf"


\* C16: every add request has a multipart body with a params part and
\* exactly one payload part: a file part and no text part from upload_file,
\* a text part typed application/text and no file part from upload_text.
C16_OnePayloadPart ==
    (sent.kind # "none" /\ sent.headers["request_type"] = "add")
    => /\ sent.kind = "multipart"
       /\ "params" \in DOMAIN sent.body
       /\ call.op = "upload_file" => DOMAIN sent.body = {"params", "file"}
       /\ call.op = "upload_text"
             => (/\ DOMAIN sent.body = {"params", "text"}
                 /\ sent.body["text"].content_type = "application/text")


\* The frame of each thread: the running one's is in the variables.
FrameOf(t) == IF t = cur THEN Locals ELSE parked[t]

\* The request of frame l is the one its own call is to send.
OwnRequest(l) ==
    /\ l.sent.headers["request_type"] = SpecifiedRequestType(l.call.op)
    /\ l.sent.headers["x-api-key"] = config.api_key
    /\ l.sent.kind = "json"
          => \A k \in DOMAIN l.call.kw :
                l.call.kw[k] # PyNone => (k \in DOMAIN l.sent.json /\ l.sent.json[k] = l.call.kw[k])
    /\ l.sent.kind = "json" <=> l.call.op \in {"generate", "retrieve", "model_info"}
    /\ l.call.op = "upload_file" => l.sent.body["file"].content = PyFile(l.call.kw["file_path"].s)
    /\ l.call.op = "upload_text" => l.sent.body["text"].content = l.call.kw["text"]

\* What the service answers to the request of each operation.
AnswersTo(op) ==
    CASE op = "generate" -> {[status_code |-> 200, text |-> BodyResultObject, retry_after |-> FALSE],
                             [status_code |-> 503, text |-> BodyErrorObject, retry_after |-> FALSE]}
      [] op = "retrieve" -> {[status_code |-> 200, text |-> BodyArray, retry_after |-> FALSE]}
      [] op = "model_info" -> {[status_code |-> 200, text |-> BodyNumber, retry_after |-> FALSE]}
      [] op = "upload_file" -> {[status_code |-> 200, text |-> BodyText, retry_after |-> FALSE]}
      [] op = "upload_text" -> {[status_code |-> 200, text |-> BodyErrorObject, retry_after |-> FALSE]}
      [] OTHER -> {}

\* The envelope each operation is to derive from a response r of that
\* service: the error envelope of the 503 that ends generate's retries, the
\* message envelope of an upload answered in plain text, else the JSON body.
EnvelopeOf(op, r) ==
    CASE r.status_code = 503 -> Returned(ErrorEnvelope("HTTP 503: invalid key", PyInt(503)))
      [] op \in {"upload_file", "upload_text"} /\ r.text = BodyText ->
            Returned(PyDict("message" :> PyStr(r.text)))
      [] OTHER -> Returned(json_loads(r.text).v)

\* C17: in every interleaving of operations invoked concurrently on one
\* client, each operation sends the request built from its own arguments
\* and returns the envelope derived from the response to its own request.
C17_EachCallItsOwn ==
    \A t \in Threads :
        LET l == FrameOf(t) IN
        /\ l.sent.kind # "none" => OwnRequest(l)
        /\ (l.pc = "done" /\ l.sent.kind # "none")
              => (/\ l.resp \in AnswersTo(l.call.op)
                  /\ l.result = EnvelopeOf(l.call.op, l.resp))

\* Two calls were in flight at once: generate was refused twice while
\* upload_file was sent and answered, and both have returned their own.
C17_Witness ==
    /\ \E t \in Threads :
          /\ FrameOf(t).pc = "done"
          /\ FrameOf(t).call.op = "generate"
          /\ FrameOf(t).answered = <<503, 503, 200>>
          /\ FrameOf(t).postsBefore = 0
          /\ FrameOf(t).result.kind = "return"
    /\ \E t \in Threads :
          /\ FrameOf(t).pc = "done"
          /\ FrameOf(t).call.op = "upload_file"
          /\ FrameOf(t).postsBefore = 1
          /\ FrameOf(t).result = Returned(PyDict("message" :> PyStr("OK")))


\* C18: every invoked operation eventually returns, given that each HTTP
\* attempt ends, and no sequence of answers makes it retry forever: a call
\* never makes more attempts than the first one and the retries allowed.
C18_EveryCallReturns ==
    /\ [](attempts <= RetryTotal + 1)
    /\ (pc = "post") ~> (pc = "done" /\ result.kind # "none" /\ attempts >= 1)

\* A call has returned the last 503 after its retries were used up by
\* failures of the transport and refusals of the service in turn.
C18_Witness ==
    /\ pc = "done"
    /\ answered = <<0, 503, 0, 503>>
    /\ retries = NoRetry
    /\ IsErrorEnvelopeWith(PyInt(503))


\* The JSON object the params part is to hold for the arguments kw of an
\* upload: session_id; description when given and not null; strategy when
\* not null, which is smart when the caller gives none.
SpecifiedParams(kw) ==
    LET keys == {"session_id"}
                \cup {k \in {"description", "strategy"} : k \in DOMAIN kw /\ kw[k] # PyNone}
                \cup ({"strategy"} \ DOMAIN kw)
    IN [k \in keys |-> IF k \in DOMAIN kw THEN kw[k] ELSE PyStr("smart")]

\* C19: upload_text builds its params part exactly as upload_file does: for
\* the same description, session_id and strategy both send the same JSON
\* object, which contains session_id, contains description and strategy only
\* when they are not null, and has strategy smart when the caller gives none.
C19_ParamsOfBothUploads ==
    (call.op \in {"upload_file", "upload_text"} /\ sent.kind = "multipart")
    => /\ sent.body["params"].content = PyStr(json_dumps(SpecifiedParams(call.kw)))
       /\ sent.body["params"].content_type = "application/json"


\* Values that are falsy in Python and are not None.
FalsyNotNull == {PyInt(0), PyFloat("0.0"), PyBool(FALSE), PyStr("")}

\* C20: when the caller of generate gives no session_id, rag_threshold,
\* rag_usage or rag_k, the body carries the defaults GenericSession, 0.5,
\* false and 5; temperature and lastk, when not given, are absent; and a
\* value given that is falsy but not null is transmitted as given.
C20_DefaultsAndFalsyValues ==
    (call.op = "generate" /\ sent.kind = "json")
    => /\ \A k \in {"session_id", "rag_threshold", "rag_usage", "rag_k"} \ DOMAIN call.kw :
             /\ k \in DOMAIN sent.json
             /\ sent.json[k] = CASE k = "session_id" -> PyStr("GenericSession")
                                 [] k = "rag_threshold" -> PyFloat("0.5")
                                 [] k = "rag_usage" -> PyBool(FALSE)
                                 [] OTHER -> PyInt(5)
       /\ \A k \in {"temperature", "lastk"} \ DOMAIN call.kw : k \notin DOMAIN sent.json
       /\ \A k \in DOMAIN call.kw :
             call.kw[k] \in FalsyNotNull => (k \in DOMAIN sent.json /\ sent.json[k] = call.kw[k])

\* generate was called with an empty system prompt, temperature 0.0, lastk 0,
\* rag_usage false and rag_k 0 and without session_id and rag_threshold: the
\* body carries the five as given and the two defaults.
C20_Witness ==
    /\ call.op = "generate"
    /\ sent.kind = "json"
    /\ DOMAIN call.kw = {"model", "system", "query", "temperature", "lastk", "rag_usage", "rag_k"}
    /\ \A k \in DOMAIN call.kw : call.kw[k] # PyNone
    /\ sent.json["system"] = PyStr("")
    /\ sent.json["temperature"] = PyFloat("0.0")
    /\ sent.json["lastk"] = PyInt(0)
    /\ sent.json["rag_usage"] = PyBool(FALSE)
    /\ sent.json["rag_k"] = PyInt(0)
    /\ sent.json["session_id"] = PyStr("GenericSession")
    /\ sent.json["rag_threshold"] = PyFloat("0.5")


-----------------------------------------------------------------------------
(* The grading bot over its client: one bot, its uploads and gradings.     *)

\* What the service answers the bot's requests.
BotAnswers(op) ==
    IF op = "generate"
    THEN [status_code : {200}, text : GradeBodies \cup {BodyErrorObject, BodyArray, BodyNumber},
          retry_after : {FALSE}]
         \cup {[status_code |-> 403, text |-> BodyErrorObject, retry_after |-> FALSE]}
    ELSE [status_code : {200, 403}, text : Bodies, retry_after : {FALSE}]

NextBot ==
    \/ \E session_id \in BotSessionIds : GradingBot_init(session_id)
    \/ \E u \in BotUploads, path \in {"regular", "missing"} :
          BotBegin(u.op, u.args, path) /\ UNCHANGED gui
    \/ \E max_points \in MaxPointsChoices :
          BotBegin("grade_submission", GradeArgs(max_points), NoPath) /\ UNCHANGED gui
    \/ BotCall
    \/ \E r \in BotAnswers(call.op) : FinalResponse(r)
    \/ RetryError("connect")
    \/ FinalError("connect")
    \/ BotReturn

SpecBot == InitConcurrent /\ [][NextBot]_vars


StartsWith(s, prefix) == Len(s) >= Len(prefix) /\ SubSeq(s, 1, Len(prefix)) = prefix

\* The client's call returned an envelope with an error field.
ReturnedErrorEnvelope ==
    /\ result.kind = "return"
    /\ result.value.t = "dict"
    /\ "error" \in DOMAIN result.value.d

\* C21: in grade_submission the retrieve request precedes the generate
\* request, generate is called only after a retrieve that returned no error
\* envelope, and when retrieve returns an error envelope the operation ends
\* after that one client operation and one request with
\* {error: "RAG retrieval failed: ..."}.
C21_RetrieveThenGenerate ==
    (bot.pc # "none" /\ bot.op = "grade_submission") =>
        /\ call.op \in {"none", "retrieve", "generate"}
        /\ call.op = "none" => bot.ops \in {<<>>, <<"retrieve">>}
        /\ call.op = "retrieve" => bot.ops \in {<<>>, <<"retrieve">>}
        /\ call.op = "generate" =>
              /\ bot.ops \in {<<"retrieve">>, <<"retrieve", "generate">>}
              /\ contains_error(bot.rag_result) = "no"
        /\ (bot.pc = "done" /\ call.op = "retrieve" /\ ReturnedErrorEnvelope) =>
              /\ bot.ops = <<"retrieve">>
              /\ posts = postsBefore + 1
              /\ bot.result.kind = "return"
              /\ DOMAIN bot.result.value.d = {"error", "raw_response"}
              /\ bot.result.value.d["error"] =
                    PyStr("RAG retrieval failed: " \o py_str(result.value.d["error"]))
              /\ bot.result.value.d["raw_response"] = result.value

\* A grading has ended on the error envelope retrieve returned for a 403.
C21_Witness ==
    /\ bot.pc = "done"
    /\ bot.op = "grade_submission"
    /\ call.op = "retrieve"
    /\ resp.status_code = 403
    /\ ReturnedErrorEnvelope
    /\ bot.ops = <<"retrieve">>
    /\ StartsWith(bot.result.value.d["error"].s, "RAG retrieval failed: HTTP 403")


\* The client's upload_file has returned to an upload operation of the bot.
UploadReturns == bot.pc = "call" /\ pc = "done" /\ bot.next = "upload_file"

\* The server accepted the upload: the file was there to send, the transport
\* returned a response, its status is 2xx and its body is one a result
\* without an error field is had from (text, a JSON array, or a JSON object
\* without an error member).
UploadAccepted ==
    /\ call.op = "upload_file"
    /\ call.path = "regular"
    /\ resp.status_code \in 200..299
    /\ LET body == json_loads(resp.text) IN
       \/ ~body.ok
       \/ body.v.t = "list"
       \/ body.v.t = "dict" /\ "error" \notin DOMAIN body.v.d

C23_OneSessionId ==
    /\ []((bot.pc # "none" /\ sent.kind # "none") =>
            IF sent.kind = "json"
            THEN "session_id" \in DOMAIN sent.json /\ sent.json["session_id"] = bot.session_id
            ELSE sent.body["params"].content =
                    PyStr(json_dumps([description |-> upload_description(bot.op, bot.args),
                                      session_id |-> bot.session_id, strategy |-> PyStr("smart")])))
    /\ [][bot.pc # "none" => bot'.session_id = bot.session_id]_vars


\* A grading whose retrieve and generate both returned a dictionary
\* without an error field has ended.
GradedAfterBothSucceeded ==
    /\ bot.pc = "done"
    /\ bot.op = "grade_submission"
    /\ bot.ops = <<"retrieve", "generate">>
    /\ contains_error(bot.rag_result) = "no"
    /\ result.kind = "return"
    /\ result.value.t = "dict"
    /\ "error" \notin DOMAIN result.value.d

\* C24: when retrieve and generate both succeed, grade_submission returns a
\* dictionary whatever the result text and max_points are: extracting the
\* score never raises, a first number/number pattern with denominator 0
\* included.
C24_GradingReturnsDict ==
    GradedAfterBothSucceeded => (bot.result.kind = "return" /\ bot.result.value.t = "dict")

\* C25: the score grade_submission returns is null when max_points is null
\* or 0; otherwise, when not null, it lies between 0 and max_points and is
\* the first X/Y of the result text: X when Y equals max_points, X / Y *
\* max_points when Y differs.
C25_ScoreWithinMaxPoints ==
    (GradedAfterBothSucceeded /\ bot.result.kind = "return") =>
        LET score == bot.result.value.d["score"]
            max_points == bot.args["max_points"]
            score_match == re_search(py_get(result.value, "result", PyStr("")).s)
            X == py_float(score_match.group1)
            Y == py_float(score_match.group2)
        IN IF Falsy(max_points) THEN score = PyNone
           ELSE score # PyNone =>
                  /\ RatLeq(Rat(0, 1), score)
                  /\ RatLeq(score, Rat(max_points.n, 1))
                  /\ score_match.ok
                  /\ score = PyNumber(IF Y = Rat(max_points.n, 1) THEN X
                                      ELSE RatMul(RatDiv(X, Y), Rat(max_points.n, 1)))


-----------------------------------------------------------------------------
(* The upload page over the bot and its client.                            *)

\* What the service answers the page's uploads.
GuiAnswers ==
    [status_code : {200}, text : Bodies, retry_after : {FALSE}]
    \cup [status_code : {403, 413}, text : {BodyErrorObject}, retry_after : {FALSE}]

NextGui ==
    \/ \E session_id \in BotSessionIds : GradingBot_init(session_id)
    \/ GuiOpen
    \/ GuiClickNoFile
    \/ \E doc_type \in DocTypes : GuiClick(doc_type, "hw1.pdf", "HW1", "")
    \/ BotCall
    \/ \E r \in GuiAnswers : FinalResponse(r)
    \/ RetryError("connect")
    \/ FinalError("connect")
    \/ BotReturn
    \/ GuiShow

SpecGui == InitConcurrent /\ [][NextGui]_vars

\* The handler reports the end of the bot's upload operation.
GuiReports == gui.pc = "uploading" /\ bot.pc = "done"

\* The result of the bot's upload operation carries an error field.
BotResultHasError ==
    /\ bot.result.kind = "return"
    /\ bot.result.value.t = "dict"
    /\ "error" \in DOMAIN bot.result.value.d

\* C26: in the GUI upload flow an upload whose result carries an error field
\* is reported as a failure and adds nothing to
\* st.session_state.uploaded_docs; the success message is shown and an entry
\* appended only when the result of the bot's operation has no error field.
C26_ErrorsReportedAsFailures ==
    [][GuiReports =>
          /\ BotResultHasError =>
                /\ gui'.shown \in {"upload_failed", "too_large"}
                /\ gui'.uploaded_docs = gui.uploaded_docs
          /\ (gui'.shown = "success" \/ gui'.uploaded_docs # gui.uploaded_docs) =>
                ~BotResultHasError]_vars


-----------------------------------------------------------------------------
(* The file handles of upload_file.  opened counts the handles the call of *)
(* this frame has opened with path.open("rb") and its code has not closed. *)

\* The runtime reclaims the file object of a call that has returned, which
\* closes the handle: at once where objects are reference-counted and no
\* reference is left, at some later collection elsewhere.
Finalize ==
    /\ pc = "done"
    /\ opened > 0
    /\ opened' = 0
    /\ UNCHANGED <<ast_Num, cur, parked, config, session, pc, call, sent, retries, attempts, answered,
                   posts, postsBefore, resp, result, bot, gui>>

\* upload_file on every state of the path, every answer of the service, and
\* the runtime reclaiming what the calls leave behind.
NextHandles ==
    \/ \E kw \in SomeUploadFile, path \in PathStates : upload_file(kw, path, MaxPosts)
    \/ \E r \in Responses : RetryResponse(r)
    \/ \E r \in Responses : FinalResponse(r)
    \/ \E e \in TransportErrors : RetryError(e)
    \/ \E e \in TransportErrors : FinalError(e)
    \/ Finalize

SpecHandles == InitConcurrent /\ [][NextHandles]_vars

\* C27: every file handle upload_file opens is closed by the time it
\* returns, on every path (success, HTTP error, network error): a call that
\* has returned has left no handle open.
C27_NoHandleLeftOpen == pc = "done" => opened = 0


-----------------------------------------------------------------------------
(* The calculator tool, on a Python whose ast module has Num and on one    *)
(* whose ast module has not.                                               *)

\* The numeric literals 0, 2 and 1e200.
Literals == {Num(Integer(0)), Num(Integer(2)), Num(Float(1, 1, 200))}

\* The expressions given to the tool: every operator on every pair of
\* literals, the modulo operator and unary plus among them; names, calls and
\* strings; and trees of two levels where an operand raises, where the
\* operator is not allowed, and where the result leaves the float range.
Expressions ==
    {Parsed(l) : l \in Literals}
    \cup {Parsed(BinOp(op, l, r)) :
            op \in {"Add", "Sub", "Mult", "Div", "Pow", "Mod"}, l \in Literals, r \in Literals}
    \cup {Parsed(UnaryOp(op, l)) : op \in {"USub", "UAdd"}, l \in Literals}
    \cup {Parsed(OtherNode(class)) : class \in {"Name", "Call", "Constant", "Compare"}}
    \cup {Parsed(BinOp("Add", Num(Integer(2)), OtherNode("Name"))),
          Parsed(BinOp("Add", BinOp("Pow", Num(Integer(2)), Num(Integer(2))),
                       BinOp("Mod", Num(Integer(2)), Num(Integer(2))))),
          Parsed(BinOp("Mod", BinOp("Div", Num(Integer(2)), Num(Integer(0))), Num(Integer(2)))),
          Parsed(UnaryOp("USub", BinOp("Div", Num(Integer(2)), Num(Integer(0))))),
          Parsed(BinOp("Pow", Num(Float(1, 1, 200)), UnaryOp("USub", Num(Integer(2))))),
          Parsed(BinOp("Pow", UnaryOp("USub", Num(Integer(2))), Num(Integer(2)))),
          Parsed(BinOp("Pow", Num(Integer(0)), UnaryOp("USub", Num(Integer(2))))),
          NoSyntax, NoText}

InitCalc ==
    /\ ast_Num \in BOOLEAN
    /\ config = from_env(PyStr("https://proxy.example/api"), PyStr("key-A")).config
    /\ session = new_session(1)
    /\ cur = 1
    /\ parked = [t \in Threads |-> IdleLocals]
    /\ pc = "idle"
    /\ call = NoCall
    /\ sent = NoRequest
    /\ retries = NoRetry
    /\ attempts = 0
    /\ answered = <<>>
    /\ posts = 0
    /\ postsBefore = 0
    /\ resp = NoResponse
    /\ result = NoResult
    /\ opened = 0
    /\ bot = NoBot
    /\ gui = NoGui

NextCalc == \E expression \in Expressions : calculator_tool(expression)

SpecCalc == InitCalc /\ [][NextCalc]_vars

\* The tree is made only of numeric literals, unary minus and the binary
\* operators +, -, *, / and **.
RECURSIVE AllowedOnly(_)
AllowedOnly(node) ==
    CASE node.node = "Num" -> TRUE
      [] node.node = "BinOp" ->
            /\ node.op \in {"Add", "Sub", "Mult", "Div", "Pow"}
            /\ AllowedOnly(node.left)
            /\ AllowedOnly(node.right)
      [] node.node = "UnaryOp" -> node.op = "USub" /\ AllowedOnly(node.operand)
      [] OTHER -> FALSE

\* Evaluating the tree divides by zero.
DividesByZero(node) == eval_node(node, TRUE).exc = "ZeroDivisionError"

\* C28: calculator_tool never raises; for an expression made only of numeric
\* literals, unary minus and +, -, *, / and ** it returns {result: value};
\* for every other input (a name, a call, another operator, a syntax error,
\* a division by zero) it returns {error: message}, and it calls no operator
\* but those.
C28_CalculatorResultOrError ==
    (call.op = "calculator_tool" /\ pc = "done") =>
        LET expression == call.kw["expression"]
            allowed == /\ expression.parse = "tree"
                       /\ AllowedOnly(expression.body)
                       /\ ~DividesByZero(expression.body)
        IN /\ result.kind = "return"
           /\ result.value.t = "dict"
           /\ allowed => DOMAIN result.value.d = {"result"}
           /\ ~allowed => DOMAIN result.value.d = {"error"}
           /\ \A i \in DOMAIN safe_eval(expression, ast_Num).applied :
                 safe_eval(expression, ast_Num).applied[i]
                     \in {"Add", "Sub", "Mult", "Div", "Pow", "USub"}

====
